---- MODULE Spec2Model ----
(***************************************************************************)
(* The editing session of the photo editor (App component): the history    *)
(* store with its cursor, the text and component overlays, the busy/error  *)
(* flags, and the asynchronous operations in flight.                       *)
(*                                                                         *)
(* A handler of a React function component reads the state values of the   *)
(* render in which it was created.  A handler that awaits (a file read, an *)
(* image decode, a remote call) resumes with those same values: each task  *)
(* in flight therefore carries the values its closure captured when the    *)
(* handler was invoked.  State updates of the form setX(prev => ...) read  *)
(* the state as it is when the continuation runs.                          *)
(***************************************************************************)
EXTENDS Integers, Sequences, FiniteSets, TLC

(* ----------------------------- bounds ---------------------------------- *)
MaxHistory == 3
MaxTasks == 2
MaxLayers == 2
MaxClock == 1
MaxOps == 6

(* ------------------------- values and inputs --------------------------- *)
Null == "null"
NoneId == -1
NoImage == <<>>
NoText == <<>>
Files == {"f1", "f2"}
Tools == {"ratio", "component", "lifestyle", "text", "adjustment"}
DefaultTool == "ratio"
Suggestions == {"s1"}

ErrFileLoad == "Could not load image file."
ErrRemote == "remote error message"
ErrAdjustDefault == "An unknown error occurred while applying the adjustment."
ErrCanvas == "Could not create canvas context."
ErrRatioLoad == "Could not load current image for processing."
ErrSuggest == "Failed to get AI suggestions."
ErrUpload == "Could not load component image file."
ErrMerge == "Failed to load images for merging."

(* ------------------------------ numbers -------------------------------- *)
\* A JavaScript number is held exactly, as a reduced fraction
\* <<numerator, denominator>> with a positive denominator.
Abs(n) == IF n < 0 THEN -n ELSE n

RECURSIVE GCD(_, _)
GCD(a, b) == IF b = 0 THEN a ELSE GCD(b, a % b)

Frac(n, d) ==
    LET s == IF d < 0 THEN -1 ELSE 1
        g == GCD(Abs(n), Abs(d))
    IN <<(s * n) \div g, (s * d) \div g>>
Num(n) == <<n, 1>>
Plus(a, b) == Frac(a[1] * b[2] + b[1] * a[2], a[2] * b[2])
Minus(a, b) == Frac(a[1] * b[2] - b[1] * a[2], a[2] * b[2])
Times(a, b) == Frac(a[1] * b[1], a[2] * b[2])
Over(a, b) == Frac(a[1] * b[2], a[2] * b[1])
Less(a, b) == a[1] * b[2] < b[1] * a[2]
AtMost(a, b) == a[1] * b[2] <= b[1] * a[2]
MathMax(a, b) == IF Less(a, b) THEN b ELSE a
MathMin(a, b) == IF Less(b, a) THEN b ELSE a
MathAbs(a) == <<Abs(a[1]), a[2]>>
\* Math.round: the nearest integer, halves rounded up
MathRound(a) == (2 * a[1] + a[2]) \div (2 * a[2])

(* --------------------------- image dimensions --------------------------- *)
\* width and height of the image a selected file decodes to
FileSize == <<8, 4>>
\* width and height of an image returned by the remote model
GeneratedSize == <<4, 4>>
\* the value RatioPanel hands to onApplyRatio for the preset '16:9'
PresetValue == Frac(16, 9)

\* the new size cut down to whole pixels instead of rounded
RatioCanvas_Truncated(size, aspectRatio) ==
    LET originalWidth == size[1]
        originalHeight == size[2]
        originalAspectRatio == Frac(originalWidth, originalHeight)
        Floor(a) == a[1] \div a[2]
    IN IF Less(originalAspectRatio, aspectRatio)
       THEN <<Floor(Times(Num(originalHeight), aspectRatio)), originalHeight>>
       ELSE <<originalWidth, Floor(Over(Num(originalWidth), aspectRatio))>>

\* the else branch multiplying by the ratio as the then branch does
RatioCanvas_MultipliesHeight(size, aspectRatio) ==
    LET originalWidth == size[1]
        originalHeight == size[2]
        originalAspectRatio == Frac(originalWidth, originalHeight)
    IN IF Less(originalAspectRatio, aspectRatio)
       THEN <<MathRound(Times(Num(originalHeight), aspectRatio)), originalHeight>>
       ELSE <<originalWidth, MathRound(Times(Num(originalWidth), aspectRatio))>>

\* the larger of the two original dimensions held, whatever the ratio
RatioCanvas_HoldsLarger(size, aspectRatio) ==
    LET originalWidth == size[1]
        originalHeight == size[2]
    IN IF originalWidth < originalHeight
       THEN <<MathRound(Times(Num(originalHeight), aspectRatio)), originalHeight>>
       ELSE <<originalWidth, MathRound(Over(Num(originalWidth), aspectRatio))>>

\* canvas.width and canvas.height of handleApplyRatio for an image of the
\* given size
RatioCanvas(size, aspectRatio) ==
    LET originalWidth == size[1]
        originalHeight == size[2]
        originalAspectRatio == Frac(originalWidth, originalHeight)
    IN IF Less(originalAspectRatio, aspectRatio)
       THEN <<MathRound(Times(Num(originalHeight), aspectRatio)), originalHeight>>
       ELSE <<originalWidth, MathRound(Over(Num(originalWidth), aspectRatio))>>

\* naturalWidth and naturalHeight of a snapshot: a ratio change draws on a
\* canvas of the new size, a bake and a merge on one of the size of their base
RECURSIVE NaturalSize(_)
NaturalSize(snapshot) ==
    LET kind == snapshot[Len(snapshot)]
        base == SubSeq(snapshot, 1, Len(snapshot) - 1)
    IN IF Len(snapshot) = 1 THEN FileSize
       ELSE IF kind \in {"adjustment", "lifestyle"} THEN GeneratedSize
       ELSE IF kind = "ratio" THEN RatioCanvas(NaturalSize(base), PresetValue)
       ELSE NaturalSize(base)

\* the layout boxes (clientWidth, clientHeight) the <img> element is given
Layouts == {<<4, 6>>, <<8, 8>>}
InitialLayout == <<4, 6>>

VARIABLES
    originalImage,      \* File | null
    history,            \* string[] : sequence of snapshots
    historyIndex,       \* number, -1 when empty (0-based cursor)
    activeTool,
    isLoading,
    error,
    activeText,         \* ActiveText | null  (<<>> or <<record>>)
    textSuggestions,
    isSuggestingText,
    componentLayers,
    activeComponentId,
    panel,              \* local state of the mounted LifestylePanel
    tasks,              \* asynchronous operations in flight, with their closures
    now,                \* Date.now()
    layout,             \* <<clientWidth, clientHeight>> of the <img> element
    textWidget,         \* the mounted InteractiveText: gesture flags, refs, props
    dragging,           \* the InteractiveComponents whose isDragging is set
    call,               \* a call of a pure function: its arguments and result
    lastOp,             \* the handler or continuation that ran last
    ops                 \* handlers invoked so far

vars == <<originalImage, history, historyIndex, activeTool, isLoading, error,
          activeText, textSuggestions, isSuggestingText, componentLayers,
          activeComponentId, panel, tasks, now, layout, textWidget, dragging,
          call, lastOp, ops>>

session == <<originalImage, history, historyIndex, activeTool, isLoading, error,
             activeText, textSuggestions, isSuggestingText, componentLayers,
             activeComponentId>>

(* --------------------------- derived values ---------------------------- *)
\* const displayedImage = history[historyIndex] || null
DisplayedOf(h, i) == IF i >= 0 /\ i < Len(h) THEN h[i + 1] ELSE NoImage
displayedImage == DisplayedOf(history, historyIndex)

\* componentLayers.find(c => c.id === activeComponentId)
FindLayer(layers, id) ==
    LET hits == {k \in 1..Len(layers) : layers[k].id = id}
    IN IF hits = {} THEN <<>>
       ELSE <<layers[CHOOSE k \in hits : \A m \in hits : k <= m]>>
activeComponent == FindLayer(componentLayers, activeComponentId)

\* the editor (image element, toolbar, tool panel) is rendered
EditorMounted == originalImage # Null /\ displayedImage # NoImage
\* imageRef.current is the <img> of the mounted editor
ImageRefAvailable == EditorMounted

(* ---------------------- the interactive overlays ------------------------ *)
\* InteractiveText is rendered for the text tool while an ActiveText exists
InteractiveTextMounted ==
    EditorMounted /\ activeTool = "text" /\ activeText # NoText /\ ImageRefAvailable
\* InteractiveComponent layers are rendered for the component tool
LayersRendered == EditorMounted /\ activeTool = "component" /\ ImageRefAvailable

\* A mounted InteractiveText: its isDragging and isResizing flags, its
\* dragStart and resizeStart refs, and the textData of its last render.  A
\* ref is written when its flag is set and read only while the flag is set:
\* it is held only then.
NewTextWidget(textData) ==
    [isDragging |-> FALSE, isResizing |-> FALSE, dragStart |-> <<>>,
     resizeStart |-> <<>>, textData |-> textData]

\* the mousemove and mouseup listeners of the widget are registered
Listening(w) == w # <<>> /\ (w[1].isDragging \/ w[1].isResizing)

\* React renders the state of the next state: the InteractiveText instance is
\* kept (with the new textData), created or unmounted
RenderedText(w) ==
    IF InteractiveTextMounted'
    THEN IF w = <<>> THEN <<NewTextWidget(activeText'[1])>>
         ELSE <<[w[1] EXCEPT !.textData = activeText'[1]]>>
    ELSE <<>>

\* ... and each dragging InteractiveComponent (key = layer.id) is kept with
\* the new data of its layer, or unmounted
RenderedDragging(d) ==
    IF LayersRendered'
    THEN {[g EXCEPT !.data = FindLayer(componentLayers', g.data.id)[1]] :
            g \in {h \in d : FindLayer(componentLayers', h.data.id) # <<>>}}
    ELSE {}

Render(w, d) ==
    /\ textWidget' = RenderedText(w)
    /\ dragging' = RenderedDragging(d)

\* A handler invoked from a user event: React renders before the next event.
Rendered ==
    /\ UNCHANGED <<layout, call>>
    /\ Render(textWidget, dragging)

\* A continuation of an asynchronous operation: React renders in a later
\* task; listeners registered by the last render stay until then and a
\* pointer event can reach them first.
Deferred ==
    /\ UNCHANGED <<layout, call>>
    /\ textWidget' = IF Listening(textWidget) THEN textWidget
                     ELSE RenderedText(textWidget)
    /\ UNCHANGED dragging

\* lastOp: which handler or continuation ran last; for a continuation, whether
\* its closure was stale (history or cursor changed since it was created),
\* whether only the cursor had moved, and how many snapshots lay after the cursor
Op(name) == [name |-> name, stale |-> FALSE, moved |-> FALSE, ahead |-> 0]

\* a handler invoked from the user interface
UserOp(name) ==
    /\ ops < MaxOps
    /\ ops' = ops + 1
    /\ lastOp' = Op(name)

(* ----------------------------- history store --------------------------- *)
\* pushToHistory without the slice: the new snapshot is appended to the whole history
pushToHistory_NoTruncate(h, i, imageDataUrl) ==
    LET newHistory == Append(h, imageDataUrl)
    IN [history |-> newHistory, historyIndex |-> Len(newHistory) - 1]

\* pushToHistory, as a function of the history and cursor of the closure that
\* calls it:  newHistory = history.slice(0, historyIndex + 1); push; set both.
pushToHistory(h, i, imageDataUrl) ==
    LET kept == IF i + 1 >= Len(h) THEN h
                ELSE IF i + 1 <= 0 THEN <<>> ELSE SubSeq(h, 1, i + 1)
        newHistory == Append(kept, imageDataUrl)
    IN [history |-> newHistory, historyIndex |-> Len(newHistory) - 1]

\* the raster an operation produces from a base snapshot
Edited(base, tag) == Append(base, tag)
\* the data URL of a file read by fileToDataUrl
DataUrl(file) == <<file>>
\* the image a remote collaborator returns for the file it was handed
Generated(file, tag) == <<file, tag>>
\* the snapshot an edit was drawn on
BaseOf(snapshot) == SubSeq(snapshot, 1, Len(snapshot) - 1)
KindOf(snapshot) == snapshot[Len(snapshot)]

(* ------------------------------- tasks --------------------------------- *)
\* A task in flight: its kind and what its closure captured.
NoClosure ==
    [history |-> <<>>, historyIndex |-> -1, displayedImage |-> NoImage,
     originalImage |-> Null, activeText |-> NoText, activeComponent |-> <<>>,
     activeComponentId |-> NoneId, file |-> Null, panelAlive |-> FALSE]

Task(kind, closure) == [kind |-> kind, c |-> closure]

RemoveAt(s, i) == [k \in 1..(Len(s) - 1) |-> IF k < i THEN s[k] ELSE s[k + 1]]

TaskIds == 1..Len(tasks)
CanStart == Len(tasks) < MaxTasks

CommitKinds == {"adjustment", "ratio", "text", "merge", "lifestyle"}

\* the history store is no longer what the closure of task t saw
Stale(t) == t.c.historyIndex # historyIndex \/ t.c.history # history
\* only the cursor moved (undo, redo) since the closure of task t was created
Moved(t) == t.c.historyIndex # historyIndex /\ t.c.history = history
Done(name, t) ==
    [name |-> name, stale |-> Stale(t), moved |-> Moved(t),
     ahead |-> Len(history) - 1 - historyIndex]

\* the continuation of task t
Completed(name, t) ==
    /\ lastOp' = Done(name, t)
    /\ UNCHANGED ops

\* unmounting the LifestylePanel orphans the continuations of its instance
PanelInit ==
    [analysis |-> FALSE, detailedPrompt |-> FALSE, isAnalyzing |-> FALSE,
     isGeneratingPrompt |-> FALSE, isGeneratingImage |-> FALSE, error |-> Null]
Orphan(ts) == [k \in 1..Len(ts) |-> [ts[k] EXCEPT !.c.panelAlive = FALSE]]

\* LifestylePanel is rendered by renderToolPanel inside the mounted editor
PanelMounted == EditorMounted /\ activeTool = "lifestyle"

\* After a batch of updates React renders again: a LifestylePanel that is no
\* longer rendered loses its local state, and the continuations of that
\* instance can no longer set it.
Settle(ts, p) ==
    /\ panel' = IF PanelMounted' THEN p ELSE PanelInit
    /\ tasks' = IF PanelMounted' THEN ts ELSE Orphan(ts)

(* ------------------------------- Init ---------------------------------- *)
\* the state of App after its first render
AppInit ==
    /\ originalImage = Null
    /\ history = <<>>
    /\ historyIndex = -1
    /\ activeTool = DefaultTool
    /\ isLoading = FALSE
    /\ error = Null
    /\ activeText = NoText
    /\ textSuggestions = {}
    /\ isSuggestingText = FALSE
    /\ componentLayers = <<>>
    /\ activeComponentId = NoneId
    /\ panel = PanelInit
    /\ tasks = <<>>
    /\ now = 0
    /\ layout = InitialLayout
    /\ textWidget = <<>>
    /\ dragging = {}
    /\ lastOp = Op("init")
    /\ ops = 0

\* no function is called apart from the handlers
NoCall == <<>>

Init == AppInit /\ call = NoCall

(* --------------------- reset, file load, undo, redo -------------------- *)
\* handleReset without setActiveTool('ratio')
handleReset_KeepsTool ==
    /\ originalImage' = Null
    /\ history' = <<>>
    /\ historyIndex' = -1
    /\ UNCHANGED activeTool
    /\ isLoading' = FALSE
    /\ error' = Null
    /\ activeText' = NoText
    /\ textSuggestions' = {}
    /\ isSuggestingText' = FALSE
    /\ componentLayers' = <<>>
    /\ activeComponentId' = NoneId
    /\ Settle(tasks, panel)
    /\ UserOp("reset")
    /\ UNCHANGED now
    /\ Rendered

handleReset ==
    /\ originalImage' = Null
    /\ history' = <<>>
    /\ historyIndex' = -1
    /\ activeTool' = DefaultTool
    /\ isLoading' = FALSE
    /\ error' = Null
    /\ activeText' = NoText
    /\ textSuggestions' = {}
    /\ isSuggestingText' = FALSE
    /\ componentLayers' = <<>>
    /\ activeComponentId' = NoneId
    /\ Settle(tasks, panel)
    /\ UserOp("reset")
    /\ UNCHANGED now
    /\ Rendered

\* StartScreen is rendered instead of the editor
StartScreenShown == originalImage = Null \/ displayedImage = NoImage

handleFileSelect(file) ==
    /\ StartScreenShown
    /\ CanStart
    /\ originalImage' = file
    /\ isLoading' = TRUE
    /\ error' = Null
    /\ UserOp("fileSelect")
    /\ UNCHANGED <<history, historyIndex, activeTool, activeText, textSuggestions,
                   isSuggestingText, componentLayers, activeComponentId, now>>
    /\ Settle(Append(tasks, Task("file", [NoClosure EXCEPT
                                            !.file = file,
                                            !.originalImage = originalImage])),
              panel)
    /\ Rendered

FileLoaded(i) ==
    /\ i \in TaskIds /\ tasks[i].kind = "file"
    /\ history' = <<DataUrl(tasks[i].c.file)>>
    /\ historyIndex' = 0
    /\ activeTool' = DefaultTool
    /\ activeText' = NoText
    /\ textSuggestions' = {}
    /\ componentLayers' = <<>>
    /\ activeComponentId' = NoneId
    /\ isLoading' = FALSE
    /\ Completed("fileLoaded", tasks[i])
    /\ UNCHANGED <<originalImage, error, isSuggestingText, now>>
    /\ Settle(RemoveAt(tasks, i), panel)
    /\ Deferred

FileLoadFailed(i) ==
    /\ i \in TaskIds /\ tasks[i].kind = "file"
    /\ error' = ErrFileLoad
    /\ isLoading' = FALSE
    /\ tasks' = RemoveAt(tasks, i)
    /\ Completed("fileLoadFailed", tasks[i])
    /\ UNCHANGED <<originalImage, history, historyIndex, activeTool, activeText,
                   textSuggestions, isSuggestingText, componentLayers,
                   activeComponentId, panel, now>>
    /\ Deferred

\* handleUndo without the historyIndex > 0 test
handleUndo_NoLowerBound ==
    /\ UserOp("undo")
    /\ historyIndex' = historyIndex - 1
    /\ activeText' = NoText
    /\ componentLayers' = <<>>
    /\ activeComponentId' = NoneId
    /\ UNCHANGED <<originalImage, history, activeTool, isLoading, error,
                   textSuggestions, isSuggestingText, panel, tasks, now>>
    /\ Rendered

\* handleUndo clearing the overlays outside the historyIndex > 0 test
handleUndo_AlwaysClears ==
    /\ UserOp("undo")
    /\ IF historyIndex > 0
       THEN historyIndex' = historyIndex - 1
       ELSE UNCHANGED historyIndex
    /\ activeText' = NoText
    /\ componentLayers' = <<>>
    /\ activeComponentId' = NoneId
    /\ UNCHANGED <<originalImage, history, activeTool, isLoading, error,
                   textSuggestions, isSuggestingText, panel, tasks, now>>
    /\ Rendered

\* handleUndo dropping the snapshots after the new cursor (undo as a pop)
handleUndo_Pops ==
    /\ UserOp("undo")
    /\ IF historyIndex > 0
       THEN /\ historyIndex' = historyIndex - 1
            /\ history' = SubSeq(history, 1, historyIndex)
            /\ activeText' = NoText
            /\ componentLayers' = <<>>
            /\ activeComponentId' = NoneId
       ELSE UNCHANGED <<history, historyIndex, activeText, componentLayers,
                        activeComponentId>>
    /\ UNCHANGED <<originalImage, activeTool, isLoading, error,
                   textSuggestions, isSuggestingText, panel, tasks, now>>
    /\ Rendered

handleUndo ==
    /\ UserOp("undo")
    /\ IF historyIndex > 0
       THEN /\ historyIndex' = historyIndex - 1
            /\ activeText' = NoText
            /\ componentLayers' = <<>>
            /\ activeComponentId' = NoneId
       ELSE UNCHANGED <<historyIndex, activeText, componentLayers, activeComponentId>>
    /\ UNCHANGED <<originalImage, history, activeTool, isLoading, error,
                   textSuggestions, isSuggestingText, panel, tasks, now>>
    /\ Rendered

\* handleRedo without setComponentLayers([])
handleRedo_KeepsLayers ==
    /\ UserOp("redo")
    /\ IF historyIndex < Len(history) - 1
       THEN /\ historyIndex' = historyIndex + 1
            /\ activeText' = NoText
            /\ activeComponentId' = NoneId
       ELSE UNCHANGED <<historyIndex, activeText, activeComponentId>>
    /\ UNCHANGED <<originalImage, history, activeTool, isLoading, error,
                   textSuggestions, isSuggestingText, componentLayers, panel,
                   tasks, now>>
    /\ Rendered

handleRedo ==
    /\ UserOp("redo")
    /\ IF historyIndex < Len(history) - 1
       THEN /\ historyIndex' = historyIndex + 1
            /\ activeText' = NoText
            /\ componentLayers' = <<>>
            /\ activeComponentId' = NoneId
       ELSE UNCHANGED <<historyIndex, activeText, componentLayers, activeComponentId>>
    /\ UNCHANGED <<originalImage, history, activeTool, isLoading, error,
                   textSuggestions, isSuggestingText, panel, tasks, now>>
    /\ Rendered

(* ------------------------------ commits -------------------------------- *)
\* what a handler's closure holds of the history store
Captured ==
    [NoClosure EXCEPT !.history = history, !.historyIndex = historyIndex,
                      !.displayedImage = displayedImage,
                      !.originalImage = originalImage]

\* Produced with the collaborators handed the displayed snapshot
Produced_FromDisplayed(t) == Edited(t.c.displayedImage, t.kind)

\* the image the operation of task t produces: a raster drawn on the snapshot
\* its handler read, or the collaborator's answer for the file it was handed
Produced(t) ==
    IF t.kind \in {"adjustment", "lifestyle"}
    THEN Generated(t.c.originalImage, t.kind)
    ELSE Edited(t.c.displayedImage, t.kind)

\* the continuation of task t calls the pushToHistory of its own closure
PushFrom(t, imageDataUrl) ==
    LET r == pushToHistory(t.c.history, t.c.historyIndex, imageDataUrl)
    IN /\ error' = Null
       /\ history' = r.history
       /\ historyIndex' = r.historyIndex

\* room for one more snapshot
CanCommit == CanStart /\ Len(history) < MaxHistory

\* AdjustmentPanel receives isLoading and disables its controls while it is set
AdjustmentPanelEnabled == EditorMounted /\ activeTool = "adjustment" /\ ~isLoading

handleApplyAdjustment ==
    /\ AdjustmentPanelEnabled
    /\ CanCommit
    /\ originalImage # Null
    /\ isLoading' = TRUE
    /\ error' = Null
    /\ UserOp("applyAdjustment")
    /\ UNCHANGED <<originalImage, history, historyIndex, activeTool, activeText,
                   textSuggestions, isSuggestingText, componentLayers,
                   activeComponentId, now>>
    /\ Settle(Append(tasks, Task("adjustment", Captured)), panel)
    /\ Rendered

AdjustmentDone(i) ==
    /\ i \in TaskIds /\ tasks[i].kind = "adjustment"
    /\ PushFrom(tasks[i], Produced(tasks[i]))
    /\ isLoading' = FALSE
    /\ Completed("adjustmentDone", tasks[i])
    /\ UNCHANGED <<originalImage, activeTool, activeText, textSuggestions,
                   isSuggestingText, componentLayers, activeComponentId, now>>
    /\ Settle(RemoveAt(tasks, i), panel)
    /\ Deferred

AdjustmentFailed(i) ==
    /\ i \in TaskIds /\ tasks[i].kind = "adjustment"
    /\ \E message \in {ErrRemote, ErrAdjustDefault} : error' = message
    /\ isLoading' = FALSE
    /\ Completed("adjustmentFailed", tasks[i])
    /\ UNCHANGED <<originalImage, history, historyIndex, activeTool, activeText,
                   textSuggestions, isSuggestingText, componentLayers,
                   activeComponentId, now>>
    /\ Settle(RemoveAt(tasks, i), panel)
    /\ Deferred

\* RatioPanel: Apply is disabled while isLoading or without a preset
RatioPanelEnabled == EditorMounted /\ activeTool = "ratio" /\ ~isLoading
RatioInputs == {Null, "16:9"}

handleApplyRatio(aspectRatio) ==
    /\ RatioPanelEnabled
    /\ CanCommit
    /\ UserOp("applyRatio")
    /\ IF displayedImage = NoImage \/ aspectRatio = Null
       THEN UNCHANGED <<isLoading, error, tasks, panel>>
       ELSE /\ isLoading' = TRUE
            /\ error' = Null
            /\ tasks' = Append(tasks, Task("ratio", Captured))
            /\ UNCHANGED panel
    /\ UNCHANGED <<originalImage, history, historyIndex, activeTool, activeText,
                   textSuggestions, isSuggestingText, componentLayers,
                   activeComponentId, now>>
    /\ Rendered

\* img.onload drawing the image displayed when the decode completes
RatioLoaded_CurrentImage(i) ==
    /\ i \in TaskIds /\ tasks[i].kind = "ratio"
    /\ PushFrom(tasks[i], Edited(displayedImage, "ratio"))
    /\ isLoading' = FALSE
    /\ Completed("ratioDone", tasks[i])
    /\ UNCHANGED <<originalImage, activeTool, activeText, textSuggestions,
                   isSuggestingText, componentLayers, activeComponentId, now>>
    /\ Settle(RemoveAt(tasks, i), panel)
    /\ Deferred

\* img.onload with a drawing context
RatioLoaded(i) ==
    /\ i \in TaskIds /\ tasks[i].kind = "ratio"
    /\ PushFrom(tasks[i], Produced(tasks[i]))
    /\ isLoading' = FALSE
    /\ Completed("ratioDone", tasks[i])
    /\ UNCHANGED <<originalImage, activeTool, activeText, textSuggestions,
                   isSuggestingText, componentLayers, activeComponentId, now>>
    /\ Settle(RemoveAt(tasks, i), panel)
    /\ Deferred

\* img.onload, canvas.getContext('2d') returns null
RatioNoContext(i) ==
    /\ i \in TaskIds /\ tasks[i].kind = "ratio"
    /\ error' = ErrCanvas
    /\ isLoading' = FALSE
    /\ Completed("ratioNoContext", tasks[i])
    /\ UNCHANGED <<originalImage, history, historyIndex, activeTool, activeText,
                   textSuggestions, isSuggestingText, componentLayers,
                   activeComponentId, now>>
    /\ Settle(RemoveAt(tasks, i), panel)
    /\ Deferred

\* img.onerror
RatioLoadError(i) ==
    /\ i \in TaskIds /\ tasks[i].kind = "ratio"
    /\ error' = ErrRatioLoad
    /\ isLoading' = FALSE
    /\ Completed("ratioLoadError", tasks[i])
    /\ UNCHANGED <<originalImage, history, historyIndex, activeTool, activeText,
                   textSuggestions, isSuggestingText, componentLayers,
                   activeComponentId, now>>
    /\ Settle(RemoveAt(tasks, i), panel)
    /\ Deferred

(* ------------------------------- text ---------------------------------- *)
\* The <img> element: the natural size of the displayed snapshot and the
\* layout box.
ImageElement ==
    [naturalWidth |-> NaturalSize(displayedImage)[1],
     naturalHeight |-> NaturalSize(displayedImage)[2],
     clientWidth |-> layout[1], clientHeight |-> layout[2]]

\* the resolver with the comparison of the aspect ratios inverted
getRenderedImageGeometry_FitsOtherAxis(el) ==
    LET naturalAspectRatio == Frac(el.naturalWidth, el.naturalHeight)
        clientAspectRatio == Frac(el.clientWidth, el.clientHeight)
    IN IF Less(naturalAspectRatio, clientAspectRatio)
       THEN LET renderedWidth == Num(el.clientWidth)
                renderedHeight == Over(Num(el.clientWidth), naturalAspectRatio)
            IN [renderedWidth |-> renderedWidth, renderedHeight |-> renderedHeight,
                offsetX |-> Num(0),
                offsetY |-> Over(Minus(Num(el.clientHeight), renderedHeight), Num(2)),
                scale |-> Over(Num(el.naturalWidth), renderedWidth)]
       ELSE LET renderedHeight == Num(el.clientHeight)
                renderedWidth == Times(Num(el.clientHeight), naturalAspectRatio)
            IN [renderedWidth |-> renderedWidth, renderedHeight |-> renderedHeight,
                offsetX |-> Over(Minus(Num(el.clientWidth), renderedWidth), Num(2)),
                offsetY |-> Num(0),
                scale |-> Over(Num(el.naturalWidth), renderedWidth)]

\* the resolver giving the whole free space as the offset (no division by 2)
getRenderedImageGeometry_NotCentred(el) ==
    LET naturalAspectRatio == Frac(el.naturalWidth, el.naturalHeight)
        clientAspectRatio == Frac(el.clientWidth, el.clientHeight)
    IN IF Less(clientAspectRatio, naturalAspectRatio)
       THEN LET renderedWidth == Num(el.clientWidth)
                renderedHeight == Over(Num(el.clientWidth), naturalAspectRatio)
            IN [renderedWidth |-> renderedWidth, renderedHeight |-> renderedHeight,
                offsetX |-> Num(0),
                offsetY |-> Minus(Num(el.clientHeight), renderedHeight),
                scale |-> Over(Num(el.naturalWidth), renderedWidth)]
       ELSE LET renderedHeight == Num(el.clientHeight)
                renderedWidth == Times(Num(el.clientHeight), naturalAspectRatio)
            IN [renderedWidth |-> renderedWidth, renderedHeight |-> renderedHeight,
                offsetX |-> Minus(Num(el.clientWidth), renderedWidth),
                offsetY |-> Num(0),
                scale |-> Over(Num(el.naturalWidth), renderedWidth)]

getRenderedImageGeometry(el) ==
    LET naturalAspectRatio == Frac(el.naturalWidth, el.naturalHeight)
        clientAspectRatio == Frac(el.clientWidth, el.clientHeight)
    IN IF Less(clientAspectRatio, naturalAspectRatio)
       THEN LET renderedWidth == Num(el.clientWidth)
                renderedHeight == Over(Num(el.clientWidth), naturalAspectRatio)
            IN [renderedWidth |-> renderedWidth, renderedHeight |-> renderedHeight,
                offsetX |-> Num(0),
                offsetY |-> Over(Minus(Num(el.clientHeight), renderedHeight), Num(2)),
                scale |-> Over(Num(el.naturalWidth), renderedWidth)]
       ELSE LET renderedHeight == Num(el.clientHeight)
                renderedWidth == Times(Num(el.clientHeight), naturalAspectRatio)
            IN [renderedWidth |-> renderedWidth, renderedHeight |-> renderedHeight,
                offsetX |-> Over(Minus(Num(el.clientWidth), renderedWidth), Num(2)),
                offsetY |-> Num(0),
                scale |-> Over(Num(el.naturalWidth), renderedWidth)]

\* pointer positions relative to the image container
ClickPoints == {<<4, 4>>, <<1, 0>>}

\* the ActiveText a click at (displayX, displayY) places
PlacedText(displayX, displayY, geometry) ==
    [text |-> "Your Text Here", fontFamily |-> "Roboto",
     fontSize |-> Num(50), fontWeight |-> "bold", fontStyle |-> "normal",
     color |-> "#FFFFFF", displayX |-> displayX, displayY |-> displayY,
     x |-> Times(Minus(displayX, geometry.offsetX), geometry.scale),
     y |-> Times(Minus(displayY, geometry.offsetY), geometry.scale)]

\* the bounds test with >= in place of >: a click on the right or bottom edge
\* is rejected
OutsideImage_EdgeRejected(displayX, displayY, geometry) ==
    LET imageRelativeX == Minus(displayX, geometry.offsetX)
        imageRelativeY == Minus(displayY, geometry.offsetY)
    IN \/ Less(imageRelativeX, Num(0)) \/ AtMost(geometry.renderedWidth, imageRelativeX)
       \/ Less(imageRelativeY, Num(0)) \/ AtMost(geometry.renderedHeight, imageRelativeY)

\* the click is outside the rendered image
OutsideImage(displayX, displayY, geometry) ==
    LET imageRelativeX == Minus(displayX, geometry.offsetX)
        imageRelativeY == Minus(displayY, geometry.offsetY)
    IN \/ Less(imageRelativeX, Num(0)) \/ Less(geometry.renderedWidth, imageRelativeX)
       \/ Less(imageRelativeY, Num(0)) \/ Less(geometry.renderedHeight, imageRelativeY)

handleImageClick(displayX, displayY) ==
    /\ EditorMounted
    /\ UserOp("imageClick")
    /\ IF activeTool # "text" \/ ~ImageRefAvailable \/ activeText # NoText
       THEN UNCHANGED activeText
       ELSE LET geometry == getRenderedImageGeometry(ImageElement)
            IN IF OutsideImage(displayX, displayY, geometry)
               THEN UNCHANGED activeText
               ELSE activeText' = <<PlacedText(displayX, displayY, geometry)>>
    /\ UNCHANGED <<originalImage, history, historyIndex, activeTool, isLoading,
                   error, textSuggestions, isSuggestingText, componentLayers,
                   activeComponentId, panel, tasks, now>>
    /\ Rendered

\* TextPanel is rendered for the text tool; Apply is disabled while isLoading,
\* without an active text, or with blank text
TextPanelMounted == EditorMounted /\ activeTool = "text"
ApplyTextEnabled ==
    TextPanelMounted /\ ~isLoading /\ activeText # NoText /\ activeText[1].text # ""

\* ctx: whether canvas.getContext('2d') gave a context
handleAddText(ctx) ==
    /\ ApplyTextEnabled
    /\ CanCommit
    /\ UserOp("addText")
    /\ IF displayedImage = NoImage \/ activeText = NoText \/ ~ImageRefAvailable \/ ~ctx
       THEN UNCHANGED tasks
       ELSE tasks' = Append(tasks, Task("text", [Captured EXCEPT !.activeText = activeText]))
    /\ UNCHANGED <<originalImage, history, historyIndex, activeTool, isLoading,
                   error, activeText, textSuggestions, isSuggestingText,
                   componentLayers, activeComponentId, panel, now>>
    /\ Rendered

\* img.onload of the bake
TextLoaded(i) ==
    /\ i \in TaskIds /\ tasks[i].kind = "text"
    /\ Completed(IF ImageRefAvailable THEN "textDone" ELSE "textSkipped", tasks[i])
    /\ IF ~ImageRefAvailable
       THEN \* getRenderedImageGeometry(null) is null: return
            /\ UNCHANGED <<history, historyIndex, error, activeText>>
       ELSE /\ PushFrom(tasks[i], Produced(tasks[i]))
            /\ activeText' = NoText
    /\ UNCHANGED <<originalImage, activeTool, isLoading, textSuggestions,
                   isSuggestingText, componentLayers, activeComponentId, now>>
    /\ Settle(RemoveAt(tasks, i), panel)
    /\ Deferred

\* the decode fails: the bake sets no onerror handler, nothing runs
TextLoadError(i) ==
    /\ i \in TaskIds /\ tasks[i].kind = "text"
    /\ Completed("textLoadError", tasks[i])
    /\ tasks' = RemoveAt(tasks, i)
    /\ UNCHANGED <<session, panel, now>>
    /\ Deferred

SuggestEnabled == TextPanelMounted /\ ~isLoading /\ ~isSuggestingText

handleSuggestText ==
    /\ SuggestEnabled
    /\ CanStart
    /\ originalImage # Null
    /\ isSuggestingText' = TRUE
    /\ textSuggestions' = {}
    /\ tasks' = Append(tasks, Task("suggest", [NoClosure EXCEPT !.originalImage = originalImage]))
    /\ UserOp("suggestText")
    /\ UNCHANGED <<originalImage, history, historyIndex, activeTool, isLoading,
                   error, activeText, componentLayers, activeComponentId, panel, now>>
    /\ Rendered

SuggestDone(i) ==
    /\ i \in TaskIds /\ tasks[i].kind = "suggest"
    /\ textSuggestions' = Suggestions
    /\ isSuggestingText' = FALSE
    /\ tasks' = RemoveAt(tasks, i)
    /\ Completed("suggestDone", tasks[i])
    /\ UNCHANGED <<originalImage, history, historyIndex, activeTool, isLoading,
                   error, activeText, componentLayers, activeComponentId, panel, now>>
    /\ Deferred

SuggestFailed(i) ==
    /\ i \in TaskIds /\ tasks[i].kind = "suggest"
    /\ \E message \in {ErrRemote, ErrSuggest} : error' = message
    /\ isSuggestingText' = FALSE
    /\ tasks' = RemoveAt(tasks, i)
    /\ Completed("suggestFailed", tasks[i])
    /\ UNCHANGED <<originalImage, history, historyIndex, activeTool, isLoading,
                   activeText, textSuggestions, componentLayers,
                   activeComponentId, panel, now>>
    /\ Deferred

\* handleSelectSuggestion moving an existing text to the horizontal centre
handleSelectSuggestion_Recentres(suggestion) ==
    /\ TextPanelMounted
    /\ suggestion \in textSuggestions
    /\ UserOp("selectSuggestion")
    /\ IF ~ImageRefAvailable
       THEN UNCHANGED <<activeText, textSuggestions>>
       ELSE /\ textSuggestions' = {}
            /\ IF activeText # NoText
               THEN LET geometry == getRenderedImageGeometry(ImageElement)
                    IN activeText' =
                         <<[activeText[1] EXCEPT
                              !.text = suggestion,
                              !.displayX = Plus(geometry.offsetX, Over(geometry.renderedWidth, Num(2))),
                              !.x = Times(Over(geometry.renderedWidth, Num(2)), geometry.scale)]>>
               ELSE LET geometry == getRenderedImageGeometry(ImageElement)
                        centerX == Plus(geometry.offsetX, Over(geometry.renderedWidth, Num(2)))
                        centerY == Plus(geometry.offsetY, Over(geometry.renderedHeight, Num(2)))
                    IN activeText' =
                         <<[text |-> suggestion, fontFamily |-> "Roboto",
                            fontSize |-> Num(60), fontWeight |-> "bold",
                            fontStyle |-> "normal", color |-> "#FFFFFF",
                            displayX |-> centerX, displayY |-> centerY,
                            x |-> Times(Minus(centerX, geometry.offsetX), geometry.scale),
                            y |-> Times(Minus(centerY, geometry.offsetY), geometry.scale)]>>
    /\ UNCHANGED <<originalImage, history, historyIndex, activeTool, isLoading,
                   error, isSuggestingText, componentLayers, activeComponentId,
                   panel, tasks, now>>
    /\ Rendered

handleSelectSuggestion(suggestion) ==
    /\ TextPanelMounted
    /\ suggestion \in textSuggestions
    /\ UserOp("selectSuggestion")
    /\ IF ~ImageRefAvailable
       THEN UNCHANGED <<activeText, textSuggestions>>
       ELSE /\ textSuggestions' = {}
            /\ IF activeText # NoText
               THEN activeText' = <<[activeText[1] EXCEPT !.text = suggestion]>>
               ELSE LET geometry == getRenderedImageGeometry(ImageElement)
                        centerX == Plus(geometry.offsetX, Over(geometry.renderedWidth, Num(2)))
                        centerY == Plus(geometry.offsetY, Over(geometry.renderedHeight, Num(2)))
                    IN activeText' =
                         <<[text |-> suggestion, fontFamily |-> "Roboto",
                            fontSize |-> Num(60), fontWeight |-> "bold",
                            fontStyle |-> "normal", color |-> "#FFFFFF",
                            displayX |-> centerX, displayY |-> centerY,
                            x |-> Times(Minus(centerX, geometry.offsetX), geometry.scale),
                            y |-> Times(Minus(centerY, geometry.offsetY), geometry.scale)]>>
    /\ UNCHANGED <<originalImage, history, historyIndex, activeTool, isLoading,
                   error, isSuggestingText, componentLayers, activeComponentId,
                   panel, tasks, now>>
    /\ Rendered

(* ----------------------------- components ------------------------------ *)
\* ComponentPanel is rendered for the component tool; its controls are
\* disabled while isLoading
ComponentPanelEnabled == EditorMounted /\ activeTool = "component" /\ ~isLoading
ComponentFiles == {"c1", "c2"}

UploadsInFlight == Cardinality({k \in TaskIds : tasks[k].kind = "upload"})

\* Choosing a file in the file dialog takes more than a millisecond: when the
\* file is chosen the clock has passed the creation time of every layer.
ClockAfterLayers ==
    IF \E k \in 1..Len(componentLayers) : componentLayers[k].id >= now
    THEN now + 1 ELSE now

handleComponentUpload(file) ==
    /\ ComponentPanelEnabled
    /\ CanStart
    /\ Len(componentLayers) + UploadsInFlight < MaxLayers
    /\ ClockAfterLayers <= MaxClock
    /\ now' = ClockAfterLayers
    /\ tasks' = Append(tasks, Task("upload", [NoClosure EXCEPT !.file = file]))
    /\ UserOp("componentUpload")
    /\ UNCHANGED <<session, panel>>
    /\ Rendered

NewComponent(id, file) ==
    [id |-> id, src |-> DataUrl(file), originalFile |-> file,
     x |-> Frac(1, 2), y |-> Frac(1, 2), scale |-> Frac(1, 2), rotation |-> 0,
     flipH |-> FALSE, flipV |-> FALSE]

\* fileToDataUrl resolved; t is what Date.now() returns
UploadDone(i, t) ==
    /\ i \in TaskIds /\ tasks[i].kind = "upload"
    /\ t >= now /\ t <= MaxClock
    /\ now' = t
    /\ componentLayers' = Append(componentLayers, NewComponent(t, tasks[i].c.file))
    /\ activeComponentId' = t
    /\ tasks' = RemoveAt(tasks, i)
    /\ Completed("uploadDone", tasks[i])
    /\ UNCHANGED <<originalImage, history, historyIndex, activeTool, isLoading,
                   error, activeText, textSuggestions, isSuggestingText, panel>>
    /\ Deferred

UploadFailed(i) ==
    /\ i \in TaskIds /\ tasks[i].kind = "upload"
    /\ error' = ErrUpload
    /\ tasks' = RemoveAt(tasks, i)
    /\ Completed("uploadFailed", tasks[i])
    /\ UNCHANGED <<originalImage, history, historyIndex, activeTool, isLoading,
                   activeText, textSuggestions, isSuggestingText, componentLayers,
                   activeComponentId, panel, now>>
    /\ Deferred

\* an update that adds the layer when no layer has its id
MapUpdate_Upsert(layers, updatedLayer) ==
    IF \E k \in 1..Len(layers) : layers[k].id = updatedLayer.id
    THEN [k \in 1..Len(layers) |->
            IF layers[k].id = updatedLayer.id THEN updatedLayer ELSE layers[k]]
    ELSE Append(layers, updatedLayer)

\* setComponentLayers(prev => prev.map(c => c.id === updatedLayer.id ? updatedLayer : c))
MapUpdate(layers, updatedLayer) ==
    [k \in 1..Len(layers) |->
        IF layers[k].id = updatedLayer.id THEN updatedLayer ELSE layers[k]]

handleComponentUpdate(updatedLayer) ==
    /\ componentLayers' = MapUpdate(componentLayers, updatedLayer)
    /\ UserOp("componentUpdate")
    /\ UNCHANGED <<originalImage, history, historyIndex, activeTool, isLoading,
                   error, activeText, textSuggestions, isSuggestingText,
                   activeComponentId, panel, tasks, now>>
    /\ Rendered

\* ComponentPanel.handleTransformChange('flipH', !activeComponent.flipH)
flipHorizontal ==
    /\ ComponentPanelEnabled
    /\ activeComponent # <<>>
    /\ handleComponentUpdate([activeComponent[1] EXCEPT !.flipH = ~activeComponent[1].flipH])

\* setComponentLayers(prev => prev.filter(c => c.id !== id))
FilterOut(layers, id) == SelectSeq(layers, LAMBDA c : c.id # id)

\* handleDeleteComponent without setActiveComponentId(null)
handleDeleteComponent_KeepsSelection ==
    /\ ComponentPanelEnabled
    /\ activeComponent # <<>>
    /\ UserOp("deleteComponent")
    /\ componentLayers' = FilterOut(componentLayers, activeComponentId)
    /\ UNCHANGED <<originalImage, history, historyIndex, activeTool, isLoading,
                   error, activeText, textSuggestions, isSuggestingText,
                   activeComponentId, panel, tasks, now>>
    /\ Rendered

handleDeleteComponent ==
    /\ ComponentPanelEnabled
    /\ activeComponent # <<>>
    /\ UserOp("deleteComponent")
    /\ IF activeComponentId = NoneId
       THEN UNCHANGED <<componentLayers, activeComponentId>>
       ELSE /\ componentLayers' = FilterOut(componentLayers, activeComponentId)
            /\ activeComponentId' = NoneId
    /\ UNCHANGED <<originalImage, history, historyIndex, activeTool, isLoading,
                   error, activeText, textSuggestions, isSuggestingText, panel,
                   tasks, now>>
    /\ Rendered

handleMergeComponent ==
    /\ ComponentPanelEnabled
    /\ activeComponent # <<>>
    /\ CanCommit
    /\ UserOp("mergeComponent")
    /\ IF displayedImage = NoImage \/ activeComponent = <<>> \/ ~ImageRefAvailable
       THEN UNCHANGED <<isLoading, tasks>>
       ELSE /\ isLoading' = TRUE
            /\ tasks' = Append(tasks,
                   Task("merge", [Captured EXCEPT !.activeComponent = activeComponent,
                                                  !.activeComponentId = activeComponentId]))
    /\ UNCHANGED <<originalImage, history, historyIndex, activeTool, error,
                   activeText, textSuggestions, isSuggestingText, componentLayers,
                   activeComponentId, panel, now>>
    /\ Rendered

\* both images loaded, the canvas gave a context: draw, push, delete the merged layer
\* (handleDeleteComponent of the closure: its activeComponentId, the current layers)
MergeLoaded(i) ==
    /\ i \in TaskIds /\ tasks[i].kind = "merge"
    /\ PushFrom(tasks[i], Produced(tasks[i]))
    /\ IF tasks[i].c.activeComponentId = NoneId
       THEN UNCHANGED <<componentLayers, activeComponentId>>
       ELSE /\ componentLayers' = FilterOut(componentLayers, tasks[i].c.activeComponentId)
            /\ activeComponentId' = NoneId
    /\ isLoading' = FALSE
    /\ Completed("mergeDone", tasks[i])
    /\ UNCHANGED <<originalImage, activeTool, activeText, textSuggestions,
                   isSuggestingText, now>>
    /\ Settle(RemoveAt(tasks, i), panel)
    /\ Deferred

\* both images loaded, canvas.getContext('2d') returns null
MergeNoContext(i) ==
    /\ i \in TaskIds /\ tasks[i].kind = "merge"
    /\ error' = ErrCanvas
    /\ isLoading' = FALSE
    /\ tasks' = RemoveAt(tasks, i)
    /\ Completed("mergeNoContext", tasks[i])
    /\ UNCHANGED <<originalImage, history, historyIndex, activeTool, activeText,
                   textSuggestions, isSuggestingText, componentLayers,
                   activeComponentId, panel, now>>
    /\ Deferred

\* the .catch handler also removing the component
MergeFailed_DeletesLayer(i) ==
    /\ i \in TaskIds /\ tasks[i].kind = "merge"
    /\ error' = ErrMerge
    /\ isLoading' = FALSE
    /\ componentLayers' = FilterOut(componentLayers, tasks[i].c.activeComponentId)
    /\ activeComponentId' = NoneId
    /\ tasks' = RemoveAt(tasks, i)
    /\ Completed("mergeFailed", tasks[i])
    /\ UNCHANGED <<originalImage, history, historyIndex, activeTool, activeText,
                   textSuggestions, isSuggestingText, panel, now>>
    /\ Deferred

\* the .then callback throws while drawing: the .catch handler runs
MergeFailed(i) ==
    /\ i \in TaskIds /\ tasks[i].kind = "merge"
    /\ error' = ErrMerge
    /\ isLoading' = FALSE
    /\ tasks' = RemoveAt(tasks, i)
    /\ Completed("mergeFailed", tasks[i])
    /\ UNCHANGED <<originalImage, history, historyIndex, activeTool, activeText,
                   textSuggestions, isSuggestingText, componentLayers,
                   activeComponentId, panel, now>>
    /\ Deferred

\* an image fails to decode: the load promises have no onerror and never
\* settle, so neither .then nor .catch runs
MergeLoadError(i) ==
    /\ i \in TaskIds /\ tasks[i].kind = "merge"
    /\ tasks' = RemoveAt(tasks, i)
    /\ Completed("mergeLoadError", tasks[i])
    /\ UNCHANGED <<session, panel, now>>
    /\ Deferred

(* --------------------------- pointer gestures --------------------------- *)
\* pointer movements (dx, dy) since the start of a gesture
PointerMoves == {<<-1, -1>>, <<2, -1>>, <<3, -100>>}

\* the window is resized: the <img> element gets another layout box
windowResize(box) ==
    /\ EditorMounted
    /\ box # layout
    /\ layout' = box
    /\ UserOp("windowResize")
    /\ UNCHANGED <<session, panel, tasks, now, textWidget, dragging, call>>

\* While isLoading the overlay ("absolute inset-0 ... z-20") covers the image
\* container: the pointer does not reach the text or the layers under it.
OverlaysReachable == ~isLoading

\* TextPanel.handleOptionChange: the style and content controls
OptionChanges == {<<"text", "">>, <<"fontWeight", "normal">>}

handleOptionChange(key, value) ==
    /\ TextPanelMounted /\ ~isLoading /\ activeText # NoText
    /\ activeText' = <<[activeText[1] EXCEPT ![key] = value]>>
    /\ UserOp("optionChange")
    /\ UNCHANGED <<originalImage, history, historyIndex, activeTool, isLoading,
                   error, textSuggestions, isSuggestingText, componentLayers,
                   activeComponentId, panel, tasks, now>>
    /\ Rendered

\* InteractiveText.handleDragStart
textDragStart ==
    /\ textWidget # <<>> /\ OverlaysReachable
    /\ UserOp("textDragStart")
    /\ UNCHANGED <<session, panel, tasks, now, layout, call>>
    /\ Render(<<[textWidget[1] EXCEPT
                  !.isDragging = TRUE,
                  !.dragStart = <<[textX |-> textWidget[1].textData.displayX,
                                   textY |-> textWidget[1].textData.displayY]>>]>>,
              dragging)

\* InteractiveText.handleResizeStart
textResizeStart ==
    /\ textWidget # <<>> /\ OverlaysReachable
    /\ UserOp("textResizeStart")
    /\ UNCHANGED <<session, panel, tasks, now, layout, call>>
    /\ Render(<<[textWidget[1] EXCEPT
                  !.isResizing = TRUE,
                  !.resizeStart = <<[fontSize |-> textWidget[1].textData.fontSize]>>]>>,
              dragging)

\* the isDragging branch without the Math.max / Math.min constraint
DragUpdate_Unclamped(w, dx, dy, geometry) ==
    LET newDisplayX == Plus(w.dragStart[1].textX, dx)
        newDisplayY == Plus(w.dragStart[1].textY, dy)
        imageRelativeX == Minus(newDisplayX, geometry.offsetX)
        imageRelativeY == Minus(newDisplayY, geometry.offsetY)
    IN [w.textData EXCEPT !.displayX = newDisplayX, !.displayY = newDisplayY,
                          !.x = Times(imageRelativeX, geometry.scale),
                          !.y = Times(imageRelativeY, geometry.scale)]

\* the argument of onUpdate in the isDragging branch of handleMouseMove
DragUpdate(w, dx, dy, geometry) ==
    LET newDisplayX ==
            MathMax(geometry.offsetX,
                    MathMin(Plus(w.dragStart[1].textX, dx),
                            Plus(geometry.renderedWidth, geometry.offsetX)))
        newDisplayY ==
            MathMax(geometry.offsetY,
                    MathMin(Plus(w.dragStart[1].textY, dy),
                            Plus(geometry.renderedHeight, geometry.offsetY)))
        imageRelativeX == Minus(newDisplayX, geometry.offsetX)
        imageRelativeY == Minus(newDisplayY, geometry.offsetY)
    IN [w.textData EXCEPT !.displayX = newDisplayX, !.displayY = newDisplayY,
                          !.x = Times(imageRelativeX, geometry.scale),
                          !.y = Times(imageRelativeY, geometry.scale)]

\* the isResizing branch without the Math.max(8, ...) floor
ResizeUpdate_NoFloor(w, dx, dy) ==
    LET delta == IF Less(MathAbs(dy), MathAbs(dx)) THEN dx ELSE dy
        newFontSize == Plus(w.resizeStart[1].fontSize, Times(delta, Frac(1, 2)))
    IN [w.textData EXCEPT !.fontSize = newFontSize]

\* the argument of onUpdate in the isResizing branch of handleMouseMove
ResizeUpdate(w, dx, dy) ==
    LET delta == IF Less(MathAbs(dy), MathAbs(dx)) THEN dx ELSE dy
        newFontSize ==
            MathMax(Num(8), Plus(w.resizeStart[1].fontSize, Times(delta, Frac(1, 2))))
    IN [w.textData EXCEPT !.fontSize = newFontSize]

\* InteractiveText.handleMouseMove: onUpdate is setActiveText; when both
\* flags are set the second call replaces the value of the first
textMouseMove(dx, dy) ==
    /\ Listening(textWidget)
    /\ EditorMounted
    /\ UserOp("textMouseMove")
    /\ LET w == textWidget[1]
           geometry == getRenderedImageGeometry(ImageElement)
       IN activeText' =
            IF w.isResizing THEN <<ResizeUpdate(w, dx, dy)>>
            ELSE <<DragUpdate(w, dx, dy, geometry)>>
    /\ UNCHANGED <<originalImage, history, historyIndex, activeTool, isLoading,
                   error, textSuggestions, isSuggestingText, componentLayers,
                   activeComponentId, panel, tasks, now>>
    /\ Rendered

\* InteractiveComponent.handleDragStart of the layer at position k
componentDragStart(k) ==
    /\ LayersRendered /\ OverlaysReachable
    /\ k \in 1..Len(componentLayers)
    /\ activeComponentId' = componentLayers[k].id
    /\ UserOp("componentDragStart")
    /\ UNCHANGED <<originalImage, history, historyIndex, activeTool, isLoading,
                   error, activeText, textSuggestions, isSuggestingText,
                   componentLayers, panel, tasks, now, layout, call>>
    /\ Render(textWidget,
              {g \in dragging : g.data.id # componentLayers[k].id}
                \cup {[data |-> componentLayers[k],
                       componentX |-> componentLayers[k].x,
                       componentY |-> componentLayers[k].y]})

\* handleMouseMove without the "Constrain to 0-1 range" lines
ComponentDragUpdate_Unclamped(g, dx, dy, geometry) ==
    LET newX == Plus(g.componentX, Over(dx, geometry.renderedWidth))
        newY == Plus(g.componentY, Over(dy, geometry.renderedHeight))
    IN [g.data EXCEPT !.x = newX, !.y = newY]

\* the argument of onUpdate in InteractiveComponent.handleMouseMove
ComponentDragUpdate(g, dx, dy, geometry) ==
    LET newX == Plus(g.componentX, Over(dx, geometry.renderedWidth))
        newY == Plus(g.componentY, Over(dy, geometry.renderedHeight))
    IN [g.data EXCEPT !.x = MathMax(Num(0), MathMin(Num(1), newX)),
                      !.y = MathMax(Num(0), MathMin(Num(1), newY))]

\* the functional updates queued by the listeners, applied one after the other
RECURSIVE ApplyUpdates(_, _)
ApplyUpdates(layers, updates) ==
    IF updates = {} THEN layers
    ELSE LET u == CHOOSE v \in updates : TRUE
         IN ApplyUpdates(MapUpdate(layers, u), updates \ {u})

\* the layers the dragging InteractiveComponents hand to handleComponentUpdate
DragUpdates(dx, dy) ==
    {ComponentDragUpdate(g, dx, dy, getRenderedImageGeometry(ImageElement)) :
        g \in dragging}

\* InteractiveComponent.handleMouseMove of every dragging layer
componentMouseMove(dx, dy) ==
    /\ dragging # {}
    /\ EditorMounted
    /\ UserOp("componentMouseMove")
    /\ componentLayers' = ApplyUpdates(componentLayers, DragUpdates(dx, dy))
    /\ UNCHANGED <<originalImage, history, historyIndex, activeTool, isLoading,
                   error, activeText, textSuggestions, isSuggestingText,
                   activeComponentId, panel, tasks, now>>
    /\ Rendered

\* handleMouseUp of every registered listener
handleMouseUp ==
    /\ Listening(textWidget) \/ dragging # {}
    /\ UserOp("mouseUp")
    /\ UNCHANGED <<session, panel, tasks, now, layout, call>>
    /\ Render(IF textWidget = <<>> THEN <<>>
              ELSE <<NewTextWidget(textWidget[1].textData)>>,
              {})

(* ------------------------------ tool switch ---------------------------- *)
switchTool(tool) ==
    /\ EditorMounted
    /\ activeTool' = tool
    /\ activeText' = NoText
    /\ activeComponentId' = NoneId
    /\ UserOp("switchTool")
    /\ UNCHANGED <<originalImage, history, historyIndex, isLoading, error,
                   textSuggestions, isSuggestingText, componentLayers, now>>
    /\ Settle(tasks, panel)
    /\ Rendered

(* --------------------------- LifestylePanel ---------------------------- *)
anyProcessRunning ==
    isLoading \/ panel.isAnalyzing \/ panel.isGeneratingPrompt \/ panel.isGeneratingImage

PanelTask(kind) == Task(kind, [Captured EXCEPT !.panelAlive = TRUE])

\* a continuation of the panel sets the local state of its own instance only
PanelSet(t, p) == IF t.c.panelAlive THEN p ELSE panel

handleGetIdeas ==
    /\ PanelMounted /\ ~anyProcessRunning
    /\ CanStart
    /\ panel' = [panel EXCEPT !.isAnalyzing = TRUE, !.error = Null,
                              !.analysis = FALSE, !.detailedPrompt = FALSE]
    /\ tasks' = Append(tasks, PanelTask("ideas"))
    /\ UserOp("getIdeas")
    /\ UNCHANGED <<session, now>>
    /\ Rendered

IdeasDone(i) ==
    /\ i \in TaskIds /\ tasks[i].kind = "ideas"
    /\ panel' = PanelSet(tasks[i], [panel EXCEPT !.analysis = TRUE, !.isAnalyzing = FALSE])
    /\ tasks' = RemoveAt(tasks, i)
    /\ Completed("ideasDone", tasks[i])
    /\ UNCHANGED <<session, now>>
    /\ Deferred

IdeasFailed(i) ==
    /\ i \in TaskIds /\ tasks[i].kind = "ideas"
    /\ panel' = PanelSet(tasks[i], [panel EXCEPT !.error = ErrRemote, !.isAnalyzing = FALSE])
    /\ tasks' = RemoveAt(tasks, i)
    /\ Completed("ideasFailed", tasks[i])
    /\ UNCHANGED <<session, now>>
    /\ Deferred

handleSelectIdea ==
    /\ PanelMounted /\ ~anyProcessRunning
    /\ panel.analysis
    /\ CanStart
    /\ panel' = [panel EXCEPT !.isGeneratingPrompt = TRUE, !.error = Null]
    /\ tasks' = Append(tasks, PanelTask("prompt"))
    /\ UserOp("selectIdea")
    /\ UNCHANGED <<session, now>>
    /\ Rendered

PromptDone(i) ==
    /\ i \in TaskIds /\ tasks[i].kind = "prompt"
    /\ panel' = PanelSet(tasks[i], [panel EXCEPT !.detailedPrompt = TRUE,
                                                 !.isGeneratingPrompt = FALSE])
    /\ tasks' = RemoveAt(tasks, i)
    /\ Completed("promptDone", tasks[i])
    /\ UNCHANGED <<session, now>>
    /\ Deferred

PromptFailed(i) ==
    /\ i \in TaskIds /\ tasks[i].kind = "prompt"
    /\ panel' = PanelSet(tasks[i], [panel EXCEPT !.error = ErrRemote,
                                                 !.isGeneratingPrompt = FALSE])
    /\ tasks' = RemoveAt(tasks, i)
    /\ Completed("promptFailed", tasks[i])
    /\ UNCHANGED <<session, now>>
    /\ Deferred

handleGenerateImage ==
    /\ PanelMounted /\ ~anyProcessRunning
    /\ panel.detailedPrompt
    /\ CanCommit
    /\ panel' = [panel EXCEPT !.isGeneratingImage = TRUE, !.error = Null]
    /\ tasks' = Append(tasks, PanelTask("lifestyle"))
    /\ UserOp("generateImage")
    /\ UNCHANGED <<session, now>>
    /\ Rendered

\* onApplyLifestyleImage(newImage): handleApplyLifestyleImage of the App render
\* the panel was rendered from, then setIsGeneratingImage(false)
GenerateDone(i) ==
    /\ i \in TaskIds /\ tasks[i].kind = "lifestyle"
    /\ PushFrom(tasks[i], Produced(tasks[i]))
    /\ Completed("generateDone", tasks[i])
    /\ UNCHANGED <<originalImage, activeTool, isLoading, activeText, textSuggestions,
                   isSuggestingText, componentLayers, activeComponentId, now>>
    /\ Settle(RemoveAt(tasks, i),
              PanelSet(tasks[i], [panel EXCEPT !.isGeneratingImage = FALSE]))
    /\ Deferred

GenerateFailed(i) ==
    /\ i \in TaskIds /\ tasks[i].kind = "lifestyle"
    /\ panel' = PanelSet(tasks[i], [panel EXCEPT !.error = ErrRemote,
                                                 !.isGeneratingImage = FALSE])
    /\ tasks' = RemoveAt(tasks, i)
    /\ Completed("generateFailed", tasks[i])
    /\ UNCHANGED <<session, now>>
    /\ Deferred

(* ------------------------------- Next ---------------------------------- *)
Next ==
    \/ handleReset
    \/ \E file \in Files : handleFileSelect(file)
    \/ \E i \in 1..MaxTasks : FileLoaded(i)
    \/ \E i \in 1..MaxTasks : FileLoadFailed(i)
    \/ handleUndo
    \/ handleRedo
    \/ handleApplyAdjustment
    \/ \E i \in 1..MaxTasks : AdjustmentDone(i)
    \/ \E i \in 1..MaxTasks : AdjustmentFailed(i)
    \/ \E aspectRatio \in RatioInputs : handleApplyRatio(aspectRatio)
    \/ \E i \in 1..MaxTasks : RatioLoaded(i)
    \/ \E i \in 1..MaxTasks : RatioNoContext(i)
    \/ \E i \in 1..MaxTasks : RatioLoadError(i)
    \/ \E pt \in ClickPoints : handleImageClick(Num(pt[1]), Num(pt[2]))
    \/ \E box \in Layouts : windowResize(box)
    \/ \E change \in OptionChanges : handleOptionChange(change[1], change[2])
    \/ textDragStart
    \/ textResizeStart
    \/ \E mv \in PointerMoves : textMouseMove(Num(mv[1]), Num(mv[2]))
    \/ handleMouseUp
    \/ \E ctx \in BOOLEAN : handleAddText(ctx)
    \/ \E i \in 1..MaxTasks : TextLoaded(i)
    \/ \E i \in 1..MaxTasks : TextLoadError(i)
    \/ handleSuggestText
    \/ \E i \in 1..MaxTasks : SuggestDone(i)
    \/ \E i \in 1..MaxTasks : SuggestFailed(i)
    \/ \E suggestion \in Suggestions : handleSelectSuggestion(suggestion)
    \/ \E file \in ComponentFiles : handleComponentUpload(file)
    \/ \E i \in 1..MaxTasks, t \in 0..MaxClock : UploadDone(i, t)
    \/ \E i \in 1..MaxTasks : UploadFailed(i)
    \/ \E k \in 1..MaxLayers : componentDragStart(k)
    \/ \E mv \in PointerMoves : componentMouseMove(Num(mv[1]), Num(mv[2]))
    \/ flipHorizontal
    \/ handleDeleteComponent
    \/ handleMergeComponent
    \/ \E i \in 1..MaxTasks : MergeLoaded(i)
    \/ \E i \in 1..MaxTasks : MergeNoContext(i)
    \/ \E i \in 1..MaxTasks : MergeFailed(i)
    \/ \E i \in 1..MaxTasks : MergeLoadError(i)
    \/ \E tool \in Tools : switchTool(tool)
    \/ handleGetIdeas
    \/ \E i \in 1..MaxTasks : IdeasDone(i)
    \/ \E i \in 1..MaxTasks : IdeasFailed(i)
    \/ handleSelectIdea
    \/ \E i \in 1..MaxTasks : PromptDone(i)
    \/ \E i \in 1..MaxTasks : PromptFailed(i)
    \/ handleGenerateImage
    \/ \E i \in 1..MaxTasks : GenerateDone(i)
    \/ \E i \in 1..MaxTasks : GenerateFailed(i)

Spec == Init /\ [][Next]_vars

(* ----------------------- calls of the pure functions -------------------- *)
\* The geometry resolver and the canvas computation of handleApplyRatio are
\* functions of their arguments: FunctionSpec calls them on every argument
\* of a bounded set.
MaxDim == 4
Dims == 1..MaxDim

\* an <img> element with positive natural and client sizes
ImageElements ==
    {[naturalWidth |-> nw, naturalHeight |-> nh, clientWidth |-> cw,
      clientHeight |-> ch] : nw \in Dims, nh \in Dims, cw \in Dims, ch \in Dims}

\* img.naturalWidth and img.naturalHeight of the image handleApplyRatio loads
ImageSizes == (Dims \X Dims) \cup {<<1000, 1000>>}

\* what RatioPanel.handleApply hands to onApplyRatio: the value of a preset,
\* or customWidth / customHeight
AspectRatios ==
    {Num(1), Frac(16, 9), Frac(9, 16)} \cup {Frac(w, h) : w \in Dims, h \in Dims}

\* img.onload of handleApplyRatio: the size of the canvas and the position
\* (x, y) the image is drawn at
RatioDrawing(size, aspectRatio) ==
    LET canvas == RatioCanvas(size, aspectRatio)
        newWidth == canvas[1]
        newHeight == canvas[2]
    IN [width |-> newWidth, height |-> newHeight,
        x |-> Over(Minus(Num(newWidth), Num(size[1])), Num(2)),
        y |-> Over(Minus(Num(newHeight), Num(size[2])), Num(2))]

\* A GenerateContentResponse as handleApiResponse reads it: the block reason
\* of promptFeedback, the candidates (the first one with its finish reason and
\* the parts of its content) and the text of the response.  An absent
\* candidate, content or inlineData is the empty sequence.
MaxParts == 2
BlockReasons == {Null, "SAFETY"}
FinishReasons == {Null, "STOP", "MAX_TOKENS"}
Parts ==
    {[inlineData |-> <<>>],
     [inlineData |-> <<[mimeType |-> "image/png", data |-> "iVBORw0KGgo"]>>],
     [inlineData |-> <<[mimeType |-> "image/jpeg", data |-> "_9j_4AAQ"]>>]}
PartLists == UNION {[1..n -> Parts] : n \in 0..MaxParts}
Responses ==
    {[blockReason |-> b, candidates |-> c, text |-> t] :
        b \in BlockReasons,
        c \in {<<>>} \cup {<<[finishReason |-> f, parts |-> ps]>> :
                               f \in FinishReasons, ps \in PartLists},
        t \in {"", "I cannot do that"}}
Contexts == {"adjustment", "lifestyle image"}

\* `data:${mimeType};base64,${data}`
ImageDataUrl(inlineData) == <<"data:", inlineData.mimeType, ";base64,", inlineData.data>>

\* the outcome of a call: a returned value or a thrown Error with its message
Returned(value) == [threw |-> FALSE, value |-> value]
Thrown(message) == [threw |-> TRUE, value |-> message]

\* handleApiResponse testing the finish reason before it looks for an image
handleApiResponse_FinishReasonFirst(response, context) ==
    IF response.blockReason # Null
    THEN Thrown(<<"Request was blocked", response.blockReason>>)
    ELSE LET parts == IF response.candidates = <<>> THEN <<>>
                      ELSE response.candidates[1].parts
             found == {k \in 1..Len(parts) : parts[k].inlineData # <<>>}
             finishReason == IF response.candidates = <<>> THEN Null
                             ELSE response.candidates[1].finishReason
         IN IF finishReason # Null /\ finishReason # "STOP"
            THEN Thrown(<<"stopped unexpectedly", context, finishReason>>)
            ELSE IF found # {}
            THEN Returned(ImageDataUrl(
                     parts[CHOOSE k \in found : \A m \in found : k <= m].inlineData[1]))
            ELSE Thrown(<<"did not return an image", context, response.text>>)

handleApiResponse(response, context) ==
    IF response.blockReason # Null
    THEN Thrown(<<"Request was blocked", response.blockReason>>)
    ELSE LET parts == IF response.candidates = <<>> THEN <<>>
                      ELSE response.candidates[1].parts
             found == {k \in 1..Len(parts) : parts[k].inlineData # <<>>}
             finishReason == IF response.candidates = <<>> THEN Null
                             ELSE response.candidates[1].finishReason
         IN IF found # {}
            THEN Returned(ImageDataUrl(
                     parts[CHOOSE k \in found : \A m \in found : k <= m].inlineData[1]))
            ELSE IF finishReason # Null /\ finishReason # "STOP"
            THEN Thrown(<<"stopped unexpectedly", context, finishReason>>)
            ELSE Thrown(<<"did not return an image", context, response.text>>)

Call(fn, args) == <<[fn |-> fn, args |-> args, result |-> <<>>]>>

FunctionInit ==
    /\ AppInit
    /\ call \in {Call("getRenderedImageGeometry", el) : el \in ImageElements}
                   \cup {Call("handleApplyRatio", [size |-> size, aspectRatio |-> r]) :
                           size \in ImageSizes, r \in AspectRatios}
                   \cup {Call("handleApiResponse", [response |-> response,
                                                     context |-> context]) :
                           response \in Responses, context \in Contexts}

Pending(fn) == call # NoCall /\ call[1].fn = fn /\ call[1].result = <<>>

resolveGeometry ==
    /\ Pending("getRenderedImageGeometry")
    /\ call' = <<[call[1] EXCEPT !.result = <<getRenderedImageGeometry(call[1].args)>>]>>
    /\ UNCHANGED <<session, panel, tasks, now, layout, textWidget, dragging,
                   lastOp, ops>>

drawRatio ==
    /\ Pending("handleApplyRatio")
    /\ call' = <<[call[1] EXCEPT
                    !.result = <<RatioDrawing(call[1].args.size,
                                              call[1].args.aspectRatio)>>]>>
    /\ UNCHANGED <<session, panel, tasks, now, layout, textWidget, dragging,
                   lastOp, ops>>

respond ==
    /\ Pending("handleApiResponse")
    /\ call' = <<[call[1] EXCEPT
                    !.result = <<handleApiResponse(call[1].args.response,
                                                   call[1].args.context)>>]>>
    /\ UNCHANGED <<session, panel, tasks, now, layout, textWidget, dragging,
                   lastOp, ops>>

FunctionNext ==
    \/ resolveGeometry
    \/ drawRatio
    \/ respond

FunctionSpec == FunctionInit /\ [][FunctionNext]_vars

(* ======================================================================= *)
(*                               Properties                                *)
(* ======================================================================= *)

\* continuation steps that push a snapshot
PushStep(i) ==
    \/ AdjustmentDone(i)
    \/ RatioLoaded(i)
    \/ (TextLoaded(i) /\ ImageRefAvailable)
    \/ MergeLoaded(i)
    \/ GenerateDone(i)
PushNames == {"adjustmentDone", "ratioDone", "textDone", "mergeDone", "generateDone"}

\* C1: in every reachable state, a non-empty history has its cursor inside it
\* (0 <= historyIndex < length) and the displayed image is history[historyIndex];
\* with an empty history no image is displayed.
C1_CursorInsideHistory ==
    /\ history # <<>> =>
          /\ 0 <= historyIndex
          /\ historyIndex < Len(history)
          /\ displayedImage = history[historyIndex + 1]
    /\ history = <<>> => displayedImage = NoImage

\* a snapshot pushed late, after undo moved the cursor, onto a full history
C1_Witness ==
    /\ lastOp.name \in PushNames
    /\ lastOp.moved
    /\ Len(history) = MaxHistory

\* C2: with N snapshots and the cursor K undos below the last one, a push
\* (started and completed there) leaves N-K+1 snapshots: the first N-K as they
\* were, then the pushed one, with the cursor on it (index N-K); and the undos
\* before it change no snapshot and move the cursor down by one at most.
C2_PushAfterUndo ==
    [][/\ \A i \in 1..MaxTasks :
            (PushStep(i) /\ ~Stale(tasks[i]) /\ historyIndex >= 0) =>
               LET N == Len(history)
                   K == N - 1 - historyIndex
               IN /\ Len(history') = N - K + 1
                  /\ SubSeq(history', 1, N - K) = SubSeq(history, 1, N - K)
                  /\ history'[N - K + 1] = Produced(tasks[i])
                  /\ historyIndex' = N - K
       /\ handleUndo =>
            /\ history' = history
            /\ historyIndex' \in {historyIndex, historyIndex - 1}]_vars

\* a push has just discarded a redo branch
C2_Witness ==
    /\ lastOp.name \in PushNames
    /\ ~lastOp.stale
    /\ lastOp.ahead > 0
    /\ historyIndex = Len(history) - 1

\* C3: a commit that completes after undo or redo moved the cursor pushes its
\* result as a branch off the cursor as it is at completion: the snapshots up
\* to the current cursor, then the result, the cursor on the result.
C3_PushOffCurrentCursor ==
    [][\A i \in 1..MaxTasks :
          (PushStep(i) /\ Moved(tasks[i])) =>
             /\ history' = Append(SubSeq(history, 1, historyIndex + 1), Produced(tasks[i]))
             /\ historyIndex' = historyIndex + 1]_vars

\* C4: the snapshot a ratio change, text bake or merge draws on is the one that
\* was displayed when the operation was started, also when the cursor has
\* moved before the decode completes.
C4_BaseCapturedAtStart ==
    [][\A i \in 1..MaxTasks :
          (RatioLoaded(i) \/ (TextLoaded(i) /\ ImageRefAvailable) \/ MergeLoaded(i)) =>
             /\ BaseOf(history'[historyIndex' + 1]) = tasks[i].c.displayedImage
             /\ KindOf(history'[historyIndex' + 1]) = tasks[i].kind]_vars

\* a ratio change, bake or merge completed after the cursor had moved
C4_Witness ==
    /\ lastOp.name \in {"ratioDone", "textDone", "mergeDone"}
    /\ lastOp.moved
    /\ BaseOf(displayedImage) = history[historyIndex]

\* C5: at no time are two commit-producing operations in flight together.
CommitsInFlight == {i \in TaskIds : tasks[i].kind \in CommitKinds}
C5_OneCommitInFlight == Cardinality(CommitsInFlight) <= 1

\* C6: a failed adjustment, a ratio change whose image cannot be loaded or
\* that gets no drawing context, and a merge that gets no context or fails
\* to load, append nothing, leave the cursor, and (merge) keep the layer.
FailureStep(i) ==
    \/ AdjustmentFailed(i)
    \/ RatioLoadError(i)
    \/ RatioNoContext(i)
    \/ MergeNoContext(i)
    \/ MergeFailed(i)
    \/ MergeLoadError(i)
C6_NoPartialCommit ==
    [][\A i \in 1..MaxTasks :
          FailureStep(i) =>
             UNCHANGED <<history, historyIndex, componentLayers, activeComponentId>>]_vars

\* a merge has failed and its layer is still there, selected
C6_Witness ==
    /\ lastOp.name \in {"mergeNoContext", "mergeFailed", "mergeLoadError"}
    /\ componentLayers # <<>>
    /\ activeComponent # <<>>

\* C7: a merge whose base or component image cannot be decoded ends with the
\* error slot set and isLoading false.
C7_MergeDecodeFailureClearsBusy ==
    [][\A i \in 1..MaxTasks :
          MergeLoadError(i) => (isLoading' = FALSE /\ error' # Null)]_vars

\* C8: undo with the cursor <= 0 and redo with the cursor >= the last index
\* change no session variable, also on the empty history.
C8_UndoRedoNoOp ==
    [][/\ (handleUndo /\ historyIndex <= 0) => UNCHANGED session
       /\ (handleRedo /\ historyIndex >= Len(history) - 1) => UNCHANGED session]_vars

\* undo was called on the empty history while a layer was there
C8_Witness ==
    /\ lastOp.name = "undo"
    /\ history = <<>>
    /\ historyIndex = -1
    /\ componentLayers # <<>>

\* C9: an undo or redo that moves the cursor moves it by exactly one and
\* leaves no active text, no component layer and no selection.
C9_UndoRedoClearsOverlays ==
    [][/\ (handleUndo /\ historyIndex' # historyIndex) =>
             /\ historyIndex' = historyIndex - 1
             /\ activeText' = NoText /\ componentLayers' = <<>>
             /\ activeComponentId' = NoneId
       /\ (handleRedo /\ historyIndex' # historyIndex) =>
             /\ historyIndex' = historyIndex + 1
             /\ activeText' = NoText /\ componentLayers' = <<>>
             /\ activeComponentId' = NoneId]_vars

\* a redo has moved the cursor to a middle snapshot
C9_Witness ==
    /\ lastOp.name = "redo"
    /\ historyIndex = 1
    /\ Len(history) = 3

\* C10: right after reset the history is empty, the cursor is -1, there is no
\* original image, no active text, no suggestion, no layer, no selection, no
\* error, the busy flag is false and the tool is 'ratio'.
C10_ResetClearsSession ==
    lastOp.name = "reset" =>
        /\ history = <<>> /\ historyIndex = -1
        /\ originalImage = Null
        /\ activeText = NoText /\ textSuggestions = {}
        /\ componentLayers = <<>> /\ activeComponentId = NoneId
        /\ isLoading = FALSE /\ error = Null
        /\ activeTool = DefaultTool

\* reset was called while an operation was in flight
C10_Witness ==
    /\ lastOp.name = "reset"
    /\ tasks # <<>>

\* C11: a tool switch clears the component layer collection: after every
\* switchTool the collection is empty.
C11_SwitchToolClearsLayers ==
    [][(\E tool \in Tools : switchTool(tool)) => componentLayers' = <<>>]_vars

\* C12: in every reachable state the active-component reference is none or
\* the id of a layer that is in the collection.
C12_ActiveComponentPresent ==
    activeComponentId # NoneId =>
        \E k \in 1..Len(componentLayers) : componentLayers[k].id = activeComponentId

\* a merge has removed its layer while another layer, uploaded meanwhile,
\* stays in the collection
C12_Witness ==
    /\ lastOp.name = "mergeDone"
    /\ componentLayers # <<>>
    /\ activeComponentId = NoneId

\* C13: in every reachable state no two layers of the collection have the
\* same id.
C13_UniqueLayerIds ==
    \A j, k \in 1..Len(componentLayers) :
        componentLayers[j].id = componentLayers[k].id => j = k

\* C14: whenever an ActiveText exists, its natural coordinates are its display
\* coordinates mapped through the current geometry of the displayed image:
\* x = (displayX - offsetX) * scale and y = (displayY - offsetY) * scale.
C14_TextCoordinatesAgree ==
    (activeText # NoText /\ EditorMounted) =>
        LET geometry == getRenderedImageGeometry(ImageElement)
            t == activeText[1]
        IN /\ t.x = Times(Minus(t.displayX, geometry.offsetX), geometry.scale)
           /\ t.y = Times(Minus(t.displayY, geometry.offsetY), geometry.scale)

\* C15: a click on the image creates an ActiveText exactly when the text tool
\* is selected, no ActiveText exists, the image element is available and the
\* point is within the rendered image (0 <= displayX - offsetX <= renderedWidth,
\* 0 <= displayY - offsetY <= renderedHeight); the text created is Roboto, 50,
\* bold, normal, white, at the click point; any other click changes no state.
C15_ClickPlacesText ==
    [][\A pt \in ClickPoints :
          handleImageClick(Num(pt[1]), Num(pt[2])) =>
             LET geometry == getRenderedImageGeometry(ImageElement)
                 relX == Minus(Num(pt[1]), geometry.offsetX)
                 relY == Minus(Num(pt[2]), geometry.offsetY)
                 within == /\ AtMost(Num(0), relX) /\ AtMost(relX, geometry.renderedWidth)
                           /\ AtMost(Num(0), relY) /\ AtMost(relY, geometry.renderedHeight)
             IN IF activeTool = "text" /\ activeText = NoText /\ ImageRefAvailable /\ within
                THEN /\ activeText' # NoText
                     /\ activeText'[1].fontFamily = "Roboto"
                     /\ activeText'[1].fontSize = Num(50)
                     /\ activeText'[1].fontWeight = "bold"
                     /\ activeText'[1].fontStyle = "normal"
                     /\ activeText'[1].color = "#FFFFFF"
                     /\ activeText'[1].displayX = Num(pt[1])
                     /\ activeText'[1].displayY = Num(pt[2])
                     /\ UNCHANGED <<originalImage, history, historyIndex, activeTool,
                                    isLoading, error, textSuggestions, isSuggestingText,
                                    componentLayers, activeComponentId>>
                ELSE UNCHANGED session]_vars

\* a click on the right edge of the rendered image has placed a text
C15_Witness ==
    /\ lastOp.name = "imageClick"
    /\ activeText # NoText
    /\ activeText[1].displayX = getRenderedImageGeometry(ImageElement).renderedWidth
    /\ activeText[1].fontSize = Num(50)

C17_TextResize ==
    [][\A mv \in PointerMoves :
          (textMouseMove(Num(mv[1]), Num(mv[2])) /\ textWidget[1].isResizing) =>
             LET d == IF Abs(mv[1]) > Abs(mv[2]) THEN mv[1] ELSE mv[2]
                 grown == Plus(textWidget[1].resizeStart[1].fontSize, Frac(d, 2))
                 wanted == IF Less(grown, Num(8)) THEN Num(8) ELSE grown
                 before == textWidget[1].textData
             IN /\ activeText' # NoText
                /\ activeText'[1].fontSize = wanted
                /\ activeText'[1] = [before EXCEPT !.fontSize = wanted]
                /\ activeText # NoText => before = activeText[1]]_vars

\* a resize that started at 50 px has been floored at 8 px
C17_Witness ==
    /\ lastOp.name = "textMouseMove"
    /\ Listening(textWidget) /\ textWidget[1].isResizing
    /\ textWidget[1].resizeStart[1].fontSize = Num(50)
    /\ activeText # NoText
    /\ activeText[1].fontSize = Num(8)

\* C18: selecting a suggestion while an ActiveText exists changes only its
\* text; selecting one while none exists creates an ActiveText at the centre of
\* the rendered image (offsetX + renderedWidth / 2, offsetY + renderedHeight / 2)
\* with the natural coordinates of that point; both empty the suggestion list.
C18_SelectSuggestion ==
    [][\A suggestion \in Suggestions :
          handleSelectSuggestion(suggestion) =>
             /\ textSuggestions' = {}
             /\ activeText' # NoText
             /\ activeText'[1].text = suggestion
             /\ IF activeText # NoText
                THEN activeText'[1] = [activeText[1] EXCEPT !.text = suggestion]
                ELSE LET geometry == getRenderedImageGeometry(ImageElement)
                         t == activeText'[1]
                     IN /\ Times(Num(2), Minus(t.displayX, geometry.offsetX))
                             = geometry.renderedWidth
                        /\ Times(Num(2), Minus(t.displayY, geometry.offsetY))
                             = geometry.renderedHeight
                        /\ t.x = Times(Minus(t.displayX, geometry.offsetX), geometry.scale)
                        /\ t.y = Times(Minus(t.displayY, geometry.offsetY), geometry.scale)
                        /\ Times(Num(2), t.x) = Num(ImageElement.naturalWidth)
                        /\ Times(Num(2), t.y) = Num(ImageElement.naturalHeight)]_vars

\* a suggestion has replaced the content of a text placed off centre
C18_Witness ==
    /\ lastOp.name = "selectSuggestion"
    /\ textSuggestions = {}
    /\ activeText # NoText
    /\ activeText[1].text \in Suggestions
    /\ activeText[1].fontSize = Num(50)
    /\ activeText[1].displayX = getRenderedImageGeometry(ImageElement).renderedWidth

\* C19: a successful component upload appends exactly one layer, at the end,
\* with x = 0.5, y = 0.5, scale = 0.5, rotation = 0, flipH = flipV = false;
\* the layers that were there are unchanged and in the same order; the new
\* layer is the active component.
C19_UploadAppendsActiveLayer ==
    [][\A i \in 1..MaxTasks, t \in 0..MaxClock :
          UploadDone(i, t) =>
             LET n == Len(componentLayers)
                 new == componentLayers'[n + 1]
             IN /\ Len(componentLayers') = n + 1
                /\ SubSeq(componentLayers', 1, n) = componentLayers
                /\ new.x = Frac(1, 2) /\ new.y = Frac(1, 2) /\ new.scale = Frac(1, 2)
                /\ new.rotation = 0 /\ ~new.flipH /\ ~new.flipV
                /\ new.originalFile = tasks[i].c.file
                /\ activeComponentId' = new.id
                /\ activeComponent' = <<new>>]_vars

\* the layers handed to handleComponentUpdate in a step: by the flip button of
\* the panel, or by the dragging layers on a pointer move
UpdatesOf(mv) ==
    IF flipHorizontal
    THEN {[activeComponent[1] EXCEPT !.flipH = ~activeComponent[1].flipH]}
    ELSE DragUpdates(Num(mv[1]), Num(mv[2]))

\* C20: a component update replaces the layers whose id is the update's id by
\* the update and changes no other layer; the number, order and ids of the
\* layers stay; when no layer has the id nothing changes (the layer is not
\* created again).
C20_UpdateOnlyMatchingLayer ==
    [][\A mv \in PointerMoves :
          (flipHorizontal \/ componentMouseMove(Num(mv[1]), Num(mv[2]))) =>
             LET updates == UpdatesOf(mv)
                 ids == {u.id : u \in updates}
             IN /\ Len(componentLayers') = Len(componentLayers)
                /\ \A k \in 1..Len(componentLayers) :
                      /\ componentLayers'[k].id = componentLayers[k].id
                      /\ componentLayers[k].id \notin ids =>
                            componentLayers'[k] = componentLayers[k]
                      /\ componentLayers[k].id \in ids =>
                            componentLayers'[k] \in updates
                /\ (\A k \in 1..Len(componentLayers) : componentLayers[k].id \notin ids)
                      => componentLayers' = componentLayers
                /\ UNCHANGED <<history, historyIndex, activeComponentId>>]_vars

\* a pointer move of a drag reached the listener of a layer that a file load
\* or a merge had just removed: the collection is still empty
C20_Witness ==
    /\ lastOp.name = "componentMouseMove"
    /\ componentLayers = <<>>

\* clamp(v, 0, 1)
Clamp01(v) == IF Less(v, Num(0)) THEN Num(0) ELSE IF Less(Num(1), v) THEN Num(1) ELSE v

C22_DeleteRemovesOneLayer ==
    [][handleDeleteComponent =>
          /\ UNCHANGED <<history, historyIndex>>
          /\ IF activeComponent = <<>>
             THEN UNCHANGED session
             ELSE /\ activeComponentId' = NoneId
                  /\ \E k \in 1..Len(componentLayers) :
                        /\ componentLayers[k] = activeComponent[1]
                        /\ componentLayers' = RemoveAt(componentLayers, k)]_vars

\* C23: a successful component merge pushes exactly one new snapshot to
\* history and deletes exactly the layer that was merged (the one active when
\* the merge was started), leaving every other layer in the collection, also
\* when a different component became active while the merge was in flight.
C23_MergePushesThenDeletesMerged ==
    [][\A i \in 1..MaxTasks :
          MergeLoaded(i) =>
             LET id == tasks[i].c.activeComponentId
                 hits == {k \in 1..Len(componentLayers) : componentLayers[k].id = id}
             IN /\ history' # <<>>
                /\ history'[Len(history')] = Produced(tasks[i])
                /\ historyIndex' = Len(history') - 1
                /\ SubSeq(history', 1, Len(history') - 1)
                     = SubSeq(tasks[i].c.history, 1, Len(history') - 1)
                /\ IF hits = {} THEN componentLayers' = componentLayers
                   ELSE \E k \in hits :
                           /\ componentLayers[k].src = tasks[i].c.activeComponent[1].src
                           /\ componentLayers' = RemoveAt(componentLayers, k)]_vars

\* C24: every failure of an operation is converted to the single session-level
\* error slot, the latest failure winning: after a failed adjustment,
\* text-suggestion request, lifestyle idea, prompt or image request, file
\* load, component upload, ratio change or merge, the session error holds the
\* message of that operation.
C24_FailuresSetSessionError ==
    [][\A i \in 1..MaxTasks :
          /\ FileLoadFailed(i) => error' = ErrFileLoad
          /\ AdjustmentFailed(i) => error' \in {ErrRemote, ErrAdjustDefault}
          /\ SuggestFailed(i) => error' \in {ErrRemote, ErrSuggest}
          /\ UploadFailed(i) => error' = ErrUpload
          /\ RatioLoadError(i) => error' = ErrRatioLoad
          /\ RatioNoContext(i) => error' = ErrCanvas
          /\ MergeNoContext(i) => error' = ErrCanvas
          /\ (MergeFailed(i) \/ MergeLoadError(i)) => error' = ErrMerge
          /\ (IdeasFailed(i) \/ PromptFailed(i) \/ GenerateFailed(i)) =>
                error' = ErrRemote]_vars

\* C25: an input decode failure leaves the prior state untouched: when
\* reading the selected file fails in a file load, or reading the uploaded
\* file fails in a component upload, every session variable other than the
\* error slot (original image, history, cursor, tool, active text, layers,
\* selection) has the value it had before the operation started, and busy is
\* false after a failed file load.
C25_DecodeFailureKeepsState ==
    [][/\ \A file \in Files :
             handleFileSelect(file) =>
                UNCHANGED <<history, historyIndex, activeTool, activeText,
                            componentLayers, activeComponentId>>
       /\ \A i \in 1..MaxTasks :
             FileLoadFailed(i) =>
                /\ originalImage' = tasks[i].c.originalImage
                /\ ~isLoading'
                /\ UNCHANGED <<history, historyIndex, activeTool, activeText,
                               componentLayers, activeComponentId>>
       /\ \A file \in ComponentFiles :
             handleComponentUpload(file) => UNCHANGED session
       /\ \A i \in 1..MaxTasks :
             UploadFailed(i) =>
                UNCHANGED <<originalImage, history, historyIndex, activeTool,
                            activeText, componentLayers, activeComponentId,
                            isLoading>>]_vars

\* the geometry resolver has been called and has returned
GeometryResolved == call # NoCall /\ call[1].fn = "getRenderedImageGeometry"
                    /\ call[1].result # <<>>

\* C26: for all positive naturalWidth, naturalHeight, clientWidth and
\* clientHeight exactly one of the offsetX and offsetY the geometry resolver
\* returns is zero and the other is not, also when the natural aspect ratio
\* equals the client aspect ratio.
C26_ExactlyOneOffsetZero ==
    GeometryResolved =>
        LET geometry == call[1].result[1]
        IN (geometry.offsetX = Num(0)) # (geometry.offsetY = Num(0))

\* C26, amended: at least one of offsetX and offsetY is zero: offsetX when
\* the natural aspect ratio is greater than the client aspect ratio, offsetY
\* otherwise; the other offset is positive when the aspect ratios differ and
\* zero when they are equal.
C26_OffsetZeroOnFilledAxis ==
    GeometryResolved =>
        LET el == call[1].args
            geometry == call[1].result[1]
            natural == el.naturalWidth * el.clientHeight
            client == el.clientWidth * el.naturalHeight
        IN /\ natural > client =>
                geometry.offsetX = Num(0) /\ Less(Num(0), geometry.offsetY)
           /\ natural < client =>
                geometry.offsetY = Num(0) /\ Less(Num(0), geometry.offsetX)
           /\ natural = client =>
                geometry.offsetX = Num(0) /\ geometry.offsetY = Num(0)

\* the resolver was called with a natural size of 2 x 4 in a box of 1 x 2 and
\* returned both offsets zero
C26_Witness ==
    /\ GeometryResolved
    /\ call[1].args = [naturalWidth |-> 2, naturalHeight |-> 4,
                       clientWidth |-> 1, clientHeight |-> 2]
    /\ call[1].result[1].offsetX = Num(0)
    /\ call[1].result[1].offsetY = Num(0)

\* C27: for all positive inputs the geometry resolver centres the rendered
\* image inside the client box without overflow: 2 * offsetX + renderedWidth
\* = clientWidth, 2 * offsetY + renderedHeight = clientHeight, offsetX >= 0,
\* offsetY >= 0, renderedWidth / renderedHeight = naturalWidth / naturalHeight
\* and scale = naturalWidth / renderedWidth.
C27_RenderedImageCentred ==
    GeometryResolved =>
        LET el == call[1].args
            geometry == call[1].result[1]
            rw == geometry.renderedWidth
            rh == geometry.renderedHeight
        IN /\ 2 * geometry.offsetX[1] * rw[2] + rw[1] * geometry.offsetX[2]
                = el.clientWidth * geometry.offsetX[2] * rw[2]
           /\ 2 * geometry.offsetY[1] * rh[2] + rh[1] * geometry.offsetY[2]
                = el.clientHeight * geometry.offsetY[2] * rh[2]
           /\ geometry.offsetX[1] >= 0 /\ geometry.offsetX[2] > 0
           /\ geometry.offsetY[1] >= 0 /\ geometry.offsetY[2] > 0
           /\ rw[1] > 0 /\ rw[2] > 0 /\ rh[1] > 0 /\ rh[2] > 0
           /\ rw[1] * rh[2] * el.naturalHeight = rh[1] * rw[2] * el.naturalWidth
           /\ geometry.scale[1] * rw[1] = el.naturalWidth * rw[2] * geometry.scale[2]

\* a 4 x 2 image in a 2 x 3 box is rendered 2 x 1 with a margin of 1 above and
\* below, at a scale of 2
C27_Witness ==
    /\ GeometryResolved
    /\ call[1].args = [naturalWidth |-> 4, naturalHeight |-> 2,
                       clientWidth |-> 2, clientHeight |-> 3]
    /\ call[1].result[1].offsetY = Num(1)
    /\ call[1].result[1].renderedHeight = Num(1)
    /\ call[1].result[1].scale = Num(2)

\* handleApplyRatio has computed its canvas and the position of the image
RatioDrawn == call # NoCall /\ call[1].fn = "handleApplyRatio" /\ call[1].result # <<>>

\* C28: applying the ratio r to a W x H image gives a canvas of
\* (round(H * r), H) when r > W / H and of (W, round(W / r)) otherwise; for
\* r = 16/9 on 1000 x 1000 that is 1778 x 1000 with the image drawn at x = 389
\* and y = 0.
C28_RatioCanvasSize ==
    RatioDrawn =>
        LET W == call[1].args.size[1]
            H == call[1].args.size[2]
            a == call[1].args.aspectRatio[1]
            b == call[1].args.aspectRatio[2]
            drawn == call[1].result[1]
        IN /\ a * H > W * b =>
                drawn.width = (2 * H * a + b) \div (2 * b) /\ drawn.height = H
           /\ a * H <= W * b =>
                drawn.width = W /\ drawn.height = (2 * W * b + a) \div (2 * a)
           /\ (W = 1000 /\ H = 1000 /\ a = 16 /\ b = 9) =>
                /\ drawn.width = 1778 /\ drawn.height = 1000
                /\ drawn.x = Num(389) /\ drawn.y = Num(0)

\* 16/9 was applied to a 1000 x 1000 image: the canvas is 1778 x 1000
C28_Witness ==
    /\ RatioDrawn
    /\ call[1].args = [size |-> <<1000, 1000>>, aspectRatio |-> <<16, 9>>]
    /\ call[1].result[1].width = 1778

\* C29: applying a ratio equal to the image's own W / H gives a canvas of
\* exactly W x H and zero offsets, for every positive W and H.
C29_OwnRatioKeepsSize ==
    RatioDrawn =>
        LET W == call[1].args.size[1]
            H == call[1].args.size[2]
            a == call[1].args.aspectRatio[1]
            b == call[1].args.aspectRatio[2]
            drawn == call[1].result[1]
        IN a * H = W * b =>
              /\ drawn.width = W /\ drawn.height = H
              /\ drawn.x = Num(0) /\ drawn.y = Num(0)

\* 1/2 was applied to a 2 x 4 image and the canvas is 2 x 4
C29_Witness ==
    /\ RatioDrawn
    /\ call[1].args = [size |-> <<2, 4>>, aspectRatio |-> <<1, 2>>]
    /\ call[1].result[1].width = 2 /\ call[1].result[1].height = 4

\* C30: for every image size and ratio the offsets (newW - origW) / 2 and
\* (newH - origH) / 2 at which the image is drawn on the new canvas are
\* integers.
C30_IntegerOffsets ==
    RatioDrawn =>
        LET drawn == call[1].result[1]
        IN /\ (drawn.width - call[1].args.size[1]) % 2 = 0
           /\ (drawn.height - call[1].args.size[2]) % 2 = 0
           /\ drawn.x[2] = 1 /\ drawn.y[2] = 1

\* C31: applying a ratio preserves the larger of the two original dimensions:
\* for every W x H image and every positive ratio the dimension of the new
\* canvas along the axis of max(W, H) equals max(W, H).
C31_LargerDimensionHeld ==
    RatioDrawn =>
        LET W == call[1].args.size[1]
            H == call[1].args.size[2]
            drawn == call[1].result[1]
        IN /\ W >= H => drawn.width = W
           /\ H >= W => drawn.height = H

\* C31, amended: applying a ratio holds one original dimension and does not
\* shrink the other: the canvas has height H and a width of at least W when
\* the ratio is greater than W / H, and width W and a height of at least H
\* otherwise.
C31_OneDimensionHeld ==
    RatioDrawn =>
        LET W == call[1].args.size[1]
            H == call[1].args.size[2]
            a == call[1].args.aspectRatio[1]
            b == call[1].args.aspectRatio[2]
            drawn == call[1].result[1]
        IN /\ a * H > W * b => drawn.height = H /\ drawn.width >= W
           /\ a * H <= W * b => drawn.width = W /\ drawn.height >= H

\* the ratio 4 was applied to a 4 x 2 image: the height, the smaller
\* dimension, is held and the width grows to 8
C31_Witness ==
    /\ RatioDrawn
    /\ call[1].args = [size |-> <<4, 2>>, aspectRatio |-> <<4, 1>>]
    /\ call[1].result[1].width = 8 /\ call[1].result[1].height = 2

\* handleApiResponse has been called and has returned or thrown
ApiResponded == call # NoCall /\ call[1].fn = "handleApiResponse" /\ call[1].result # <<>>

\* the first candidate of a response has a part with inlineData
HasImagePart(response) ==
    /\ response.candidates # <<>>
    /\ \E k \in 1..Len(response.candidates[1].parts) :
          response.candidates[1].parts[k].inlineData # <<>>

\* C32: the response handler throws if the prompt was blocked, if the finish
\* reason of the first candidate is present and not STOP, or if no image part
\* is present, and returns a data URL only when none of these holds.
C32_ThrowsWhenRemoteDeclines ==
    ApiResponded =>
        LET response == call[1].args.response
            blocked == response.blockReason # Null
            stopped == /\ response.candidates # <<>>
                       /\ response.candidates[1].finishReason \notin {Null, "STOP"}
        IN call[1].result[1].threw
              <=> (blocked \/ stopped \/ ~HasImagePart(response))

\* C32, amended: the response handler throws if the prompt was blocked or if
\* the first candidate has no image part (with the finish reason in the
\* message when it is present and not STOP); otherwise it returns the data URL
\* of the first image part, whatever the finish reason.
C32_ThrowsWithoutImage ==
    ApiResponded =>
        LET response == call[1].args.response
            result == call[1].result[1]
            blocked == response.blockReason # Null
            stopped == /\ response.candidates # <<>>
                       /\ response.candidates[1].finishReason \notin {Null, "STOP"}
        IN /\ result.threw <=> (blocked \/ ~HasImagePart(response))
           /\ blocked => result.value[1] = "Request was blocked"
           /\ (~blocked /\ ~HasImagePart(response)) =>
                 result.value[1] = IF stopped THEN "stopped unexpectedly"
                                   ELSE "did not return an image"
           /\ ~result.threw =>
                 \E k \in 1..Len(response.candidates[1].parts) :
                    LET part == response.candidates[1].parts[k]
                    IN /\ part.inlineData # <<>>
                       /\ \A m \in 1..(k - 1) :
                             response.candidates[1].parts[m].inlineData = <<>>
                       /\ result.value = <<"data:", part.inlineData[1].mimeType,
                                           ";base64,", part.inlineData[1].data>>

\* a response that was not blocked, finished with MAX_TOKENS and carries an
\* image part after a text part: the data URL of the image is returned
C32_Witness ==
    /\ ApiResponded
    /\ call[1].args.response.blockReason = Null
    /\ call[1].args.response.candidates # <<>>
    /\ call[1].args.response.candidates[1].finishReason = "MAX_TOKENS"
    /\ Len(call[1].args.response.candidates[1].parts) = 2
    /\ call[1].args.response.candidates[1].parts[1].inlineData = <<>>
    /\ ~call[1].result[1].threw
    /\ call[1].result[1].value[2] = "image/jpeg"

\* C33: under any interleaving of commits in flight with each other and with
\* undo and redo, a push discards only snapshots that lie after the cursor at
\* the moment of the push: the snapshot displayed immediately before the push
\* and every earlier snapshot are in history, at the same indices, immediately
\* after it.
C33_PushKeepsDisplayedPrefix ==
    [][\A i \in 1..MaxTasks :
          PushStep(i) =>
             /\ Len(history') >= historyIndex + 1
             /\ \A k \in 1..(historyIndex + 1) : history'[k] = history[k]]_vars

\* C34: once reset has been called, history stays empty, the cursor absent,
\* the component collection empty and the busy flag false until the next file
\* is selected, also when operations started before the reset complete after
\* it; and no snapshot of the session that was reset appears in the history
\* of the next session (no commit started under another original image
\* pushes).
C34_ResetIsFinal ==
    /\ [](originalImage = Null =>
             /\ history = <<>> /\ historyIndex = -1
             /\ componentLayers = <<>>
             /\ ~isLoading)
    /\ [][\A i \in 1..MaxTasks :
             PushStep(i) => tasks[i].c.originalImage = originalImage]_vars

\* C35: the single busy flag covers every commit in flight: whenever an
\* adjustment, ratio change, text bake or component merge has been started
\* and has not yet completed or failed, isLoading is true.
C35_BusyCoversCommits ==
    (\E k \in TaskIds : tasks[k].kind \in {"adjustment", "ratio", "text", "merge"})
        => isLoading

\* C36: an ActiveText exists only while the text tool is selected: in every
\* reachable state activeText present implies activeTool = 'text'; every tool
\* switch (re-selecting the text tool included), every undo and redo that
\* moves the cursor, every completed bake, every file load and every reset
\* leaves activeText absent.
C36_ActiveTextOnlyWithTextTool ==
    /\ [](activeText # NoText => activeTool = "text")
    /\ [][((\E tool \in Tools : switchTool(tool))
             \/ (handleUndo /\ historyIndex' # historyIndex)
             \/ (handleRedo /\ historyIndex' # historyIndex)
             \/ handleReset
             \/ (\E i \in 1..MaxTasks :
                    FileLoaded(i) \/ (TextLoaded(i) /\ ImageRefAvailable)))
          => activeText' = NoText]_vars

\* C37: undo and redo never change the snapshot sequence, only the cursor; a
\* cursor-moving undo steps the cursor back by one and leaves a state in which
\* redo moves the cursor, and a redo that moves the cursor steps it forward by
\* one: the redo issued right after the undo restores the cursor and the
\* displayed snapshot of before the undo.
C37_UndoRedoRoundTrip ==
    [][/\ (handleUndo \/ handleRedo) => history' = history
       /\ (handleUndo /\ historyIndex' # historyIndex)
            => /\ historyIndex' = historyIndex - 1
               /\ historyIndex' < Len(history') - 1
               /\ DisplayedOf(history', historyIndex' + 1) = displayedImage
       /\ (handleRedo /\ historyIndex < Len(history) - 1)
            => /\ historyIndex' = historyIndex + 1
               /\ displayedImage' = DisplayedOf(history, historyIndex + 1)]_vars

\* a redo has moved the cursor from 0 to 1 of three snapshots: the cursor was
\* brought to 0 by undo, and the redo followed the last undo
C37_Witness ==
    /\ lastOp.name = "redo"
    /\ Len(history) = 3
    /\ historyIndex = 1

\* C38: from a successful file load until the next reset the history is never
\* empty and its first snapshot is the image of the file that load read: a
\* file load leaves that image at index 0, and no other step but a reset
\* empties the history or replaces the snapshot at index 0.
C38_FirstSnapshotIsLoadedFile ==
    [][/\ \A i \in 1..MaxTasks :
            FileLoaded(i) => /\ history' # <<>>
                             /\ history'[1] = DataUrl(tasks[i].c.file)
       /\ (/\ history # <<>>
           /\ ~handleReset
           /\ ~(\E i \in 1..MaxTasks : FileLoaded(i)))
            => /\ history' # <<>>
               /\ history'[1] = history[1]]_vars

\* C39: the adjustment, lifestyle and text-suggestion collaborators are handed
\* the original file, whatever snapshot is displayed: a request captures the
\* originalImage of the state it is made in, and the snapshot an adjustment or
\* a lifestyle generation pushes is the collaborator's answer for that file,
\* with none of the edits of the snapshot displayed at the request.
C39_CollaboratorsGetOriginalFile ==
    [][/\ (handleApplyAdjustment \/ handleSuggestText \/ handleGetIdeas
             \/ handleGenerateImage)
            => /\ originalImage # Null
               /\ tasks'[Len(tasks')].c.originalImage = originalImage
       /\ \A i \in 1..MaxTasks :
            (AdjustmentDone(i) \/ GenerateDone(i))
                => /\ tasks[i].c.originalImage \in Files
                   /\ history'[Len(history')]
                        = <<tasks[i].c.originalImage, tasks[i].kind>>]_vars

\* an adjustment requested while a ratio change was displayed has pushed a
\* snapshot made of the original file alone
C39_Witness ==
    /\ lastOp.name = "adjustmentDone"
    /\ \E file \in Files :
          history = <<DataUrl(file), Edited(DataUrl(file), "ratio"),
                      Generated(file, "adjustment")>>
    /\ historyIndex = 2

====
